---- MODULE Spec2Model ----
(***************************************************************************)
(* The transactional cached state of the blockifier                        *)
(* (crates/blockifier/src/state/cached_state.rs): a chain of CachedState   *)
(* layers over an underlying StateReader, with the State operations of     *)
(* the top layer, merge / commit / abort of a child layer into its parent, *)
(* and the state diff; and the system calls of an executing contract      *)
(* (crates/blockifier/src/execution/syscalls.rs), each handled by the      *)
(* syscall handler of the running call frame on the top layer.             *)
(***************************************************************************)
EXTENDS Integers, Sequences, FiniteSets, TLC

VARIABLES
    reader,     \* the underlying StateReader below the outermost CachedState
    layers,     \* the chain of CachedState values; layers[1] reads `reader`,
                \* layers[i+1] reads layers[i] (CachedState.state)
    snap,       \* snap[i]: layers[i] as it was when layers[i+1] was opened
    last,       \* the last operation, its arguments, result and reader queries
    binds,      \* binds[i][a]: class hashes bound by Ok set_class_hash_at(a, _)
                \* calls that layer i holds (a sequence, in call order)
    written,    \* written[i][c]: the value of the last set_storage_at on cell c
                \* that layer i holds (its own, and those of ended children)
    panicked,   \* a panic!/expect/arithmetic-overflow abort has happened
    nops,       \* number of operations performed so far
    frames      \* the stack of syscall handlers of the running call frames:
                \* frames[i] acts on layers[i]; empty while the cache is
                \* driven through the State interface alone

vars == <<reader, layers, snap, last, binds, written, panicked, nops, frames>>

----------------------------------------------------------------------------
(* Bounds of the model. *)

\* deepest chain of CachedState layers (1 = a single cache over the reader)
MaxDepth == 2
\* operations in one behaviour of Spec, which has every operation
MaxOps == 3
\* operations in one behaviour of SpecNonce, SpecClass and SpecCode, which
\* have the operations of one family of cells
MaxFamilyOps == 6
\* operations in one behaviour of SpecStorage, which has the storage
\* operations
MaxStorageOps == 4
\* operations in one behaviour of SpecWrites, which has the write operations
\* of all the families
MaxWriteOps == 4
\* system calls in one behaviour of SpecEvents (one frame: events, messages,
\* storage writes)
MaxEventOps == 4
\* system calls in one behaviour of SpecLogs (events and messages across
\* inner calls)
MaxLogOps == 6
\* operations in one behaviour of SpecStorageCalls (storage system calls in
\* nested frames)
MaxStorageCallOps == 4
\* system calls in one behaviour of SpecCalls (all the system calls)
MaxCallOps == 3
\* system calls and operations in a behaviour of the deployments
MaxDeployOps == 4

(* Finite value domains.  Address 0 is ContractAddress::default(), class   *)
(* hash 0 is ClassHash::default().                                         *)
ContractAddress == {0, 1}
StorageKey == {0, 1}
ContractStorageKey == ContractAddress \X StorageKey
StarkFelt == {0, 1}
ClassHash == {0, 1, 2}
ContractClass == {"classA", "classB"}

----------------------------------------------------------------------------
(* Field elements that take part in arithmetic (nonces) keep their width:  *)
(* a StarkFelt is 32 big-endian bytes, modelled as big-endian limbs of two *)
(* bytes; a u64 is the last 64 bits.                                       *)

\* bytes of a StarkFelt
FeltBytes == 32
\* bits of the u64 the nonce is incremented in
U64Bits == 64
LimbBase == 2 ^ 16
FeltLimbs == FeltBytes \div 2
U64Limbs == U64Bits \div 16

ZeroLimbs(n) == [i \in 1..n |-> 0]
\* StarkFelt::from(u64)
FeltFromU64(w) == ZeroLimbs(FeltLimbs - U64Limbs) \o w
\* a small natural number as a u64
U64(n) == [i \in 1..U64Limbs |-> IF i = U64Limbs THEN n ELSE 0]
U64Max == [i \in 1..U64Limbs |-> LimbBase - 1]
U64MaxMinus1 == [i \in 1..U64Limbs |-> IF i = U64Limbs THEN LimbBase - 2 ELSE LimbBase - 1]
FeltZero == FeltFromU64(U64(0))
\* 2^64: the lowest felt that does not fit in a u64
FeltTwoTo64 == [i \in 1..FeltLimbs |-> IF i = FeltLimbs - U64Limbs THEN 1 ELSE 0]
\* the largest field element, P - 1 = 2^251 + 17 * 2^192
FeltMax == [i \in 1..FeltLimbs |-> IF i = 1 THEN 2048 ELSE IF i = 4 THEN 17 ELSE 0]

\* the low 64 bits of a felt
LowU64(f) == SubSeq(f, FeltLimbs - U64Limbs + 1, FeltLimbs)
HighLimbs(f) == SubSeq(f, 1, FeltLimbs - U64Limbs)

\* big-endian comparison of two limb sequences of equal length
RECURSIVE LimbsLess(_, _)
LimbsLess(x, y) ==
    IF Len(x) = 0 THEN FALSE
    ELSE IF Head(x) # Head(y) THEN Head(x) < Head(y)
    ELSE LimbsLess(Tail(x), Tail(y))
FeltLeq(x, y) == x = y \/ LimbsLess(x, y)

\* w + 1 on n = Len(w) limbs, with the carry out of the top limb
RECURSIVE AddOne(_)
AddOne(w) ==
    IF Len(w) = 0 THEN [val |-> w, carry |-> TRUE]
    ELSE LET n == Len(w)
             low == w[n]
             front == SubSeq(w, 1, n - 1)
         IN  IF low + 1 < LimbBase
             THEN [val |-> Append(front, low + 1), carry |-> FALSE]
             ELSE LET r == AddOne(front)
                  IN  [val |-> Append(r.val, 0), carry |-> r.carry]

----------------------------------------------------------------------------
(* Results. *)

Ok(v) == [ok |-> TRUE, val |-> v, err |-> "none", at |-> "none"]
Err(e) == [ok |-> FALSE, val |-> "none", err |-> e, at |-> "none"]
\* an error value that carries a contract address
ErrAt(e, a) == [ok |-> FALSE, val |-> "none", err |-> e, at |-> a]
Unit == "unit"
\* a panic is no result value: the operation that hits it aborts the program
Panic == Err("panic")
IsPanic(res) == ~res.ok /\ res.err = "panic"

----------------------------------------------------------------------------
(* HashMap: a function on the set of keys present. *)

EmptyMap == [x \in {} |-> 0]
\* HashMap::insert
Insert(m, k, v) == [x \in DOMAIN m \cup {k} |-> IF x = k THEN v ELSE m[x]]
\* HashMap::extend: the entries of `other` are inserted into m, overwriting
Extend(m, other) ==
    [x \in DOMAIN m \cup DOMAIN other |-> IF x \in DOMAIN other THEN other[x] ELSE m[x]]
\* utils::subtract_mappings: the entries of lhs that rhs does not hold
subtract_mappings(lhs, rhs) ==
    LET keep == {x \in DOMAIN lhs : ~(x \in DOMAIN rhs /\ rhs[x] = lhs[x])}
    IN  [x \in keep |-> lhs[x]]

----------------------------------------------------------------------------
(* StateCache and CachedState::new. *)

NewCachedState ==
    [nonce_initial_values |-> EmptyMap,
     class_hash_initial_values |-> EmptyMap,
     storage_initial_values |-> EmptyMap,
     nonce_writes |-> EmptyMap,
     class_hash_writes |-> EmptyMap,
     storage_writes |-> EmptyMap,
     class_hash_to_class |-> EmptyMap]

\* faulty variant: only a value that was read counts as held
has_storage_at_initial_only(c, a, k) == <<a, k>> \in DOMAIN c.storage_initial_values
\* Option::is_some of StateCache::get_storage_at
has_storage_at(c, a, k) ==
    <<a, k>> \in DOMAIN c.storage_writes \/ <<a, k>> \in DOMAIN c.storage_initial_values
\* faulty variant: the initial value takes priority over the write
StateCache_get_storage_at_initial_first(c, a, k) ==
    IF <<a, k>> \in DOMAIN c.storage_initial_values
    THEN c.storage_initial_values[<<a, k>>]
    ELSE c.storage_writes[<<a, k>>]
\* StateCache::get_storage_at, where it is Some: writes take priority
StateCache_get_storage_at(c, a, k) ==
    IF <<a, k>> \in DOMAIN c.storage_writes
    THEN c.storage_writes[<<a, k>>]
    ELSE c.storage_initial_values[<<a, k>>]

has_nonce_at(c, a) == a \in DOMAIN c.nonce_writes \/ a \in DOMAIN c.nonce_initial_values
StateCache_get_nonce_at(c, a) ==
    IF a \in DOMAIN c.nonce_writes THEN c.nonce_writes[a] ELSE c.nonce_initial_values[a]

has_class_hash_at(c, a) ==
    a \in DOMAIN c.class_hash_writes \/ a \in DOMAIN c.class_hash_initial_values
StateCache_get_class_hash_at(c, a) ==
    IF a \in DOMAIN c.class_hash_writes
    THEN c.class_hash_writes[a]
    ELSE c.class_hash_initial_values[a]

\* faulty variant: the default value is recorded, not the value read
set_storage_initial_value_default(c, a, k, v) ==
    [c EXCEPT !.storage_initial_values = Insert(@, <<a, k>>, 0)]
set_storage_initial_value(c, a, k, v) ==
    [c EXCEPT !.storage_initial_values = Insert(@, <<a, k>>, v)]
\* faulty variant: the write lands in the initial values
set_storage_value_into_initial(c, a, k, v) ==
    [c EXCEPT !.storage_initial_values = Insert(@, <<a, k>>, v)]
set_storage_value(c, a, k, v) ==
    [c EXCEPT !.storage_writes = Insert(@, <<a, k>>, v)]
set_nonce_initial_value(c, a, n) ==
    [c EXCEPT !.nonce_initial_values = Insert(@, a, n)]
set_nonce_value(c, a, n) ==
    [c EXCEPT !.nonce_writes = Insert(@, a, n)]
\* faulty variant: the initial value is not recorded
set_class_hash_initial_value_dropped(c, a, h) == c
set_class_hash_initial_value(c, a, h) ==
    [c EXCEPT !.class_hash_initial_values = Insert(@, a, h)]
set_class_hash_write(c, a, h) ==
    [c EXCEPT !.class_hash_writes = Insert(@, a, h)]

\* faulty variant: the initial values are not taken off the storage writes
get_state_diff_storage_whole(c) ==
    [nonce_writes |-> subtract_mappings(c.nonce_writes, c.nonce_initial_values),
     class_hash_writes |-> subtract_mappings(c.class_hash_writes, c.class_hash_initial_values),
     storage_writes |-> c.storage_writes]
\* StateCache::get_state_diff: the three write maps less the initial values
get_state_diff(c) ==
    [nonce_writes |-> subtract_mappings(c.nonce_writes, c.nonce_initial_values),
     class_hash_writes |-> subtract_mappings(c.class_hash_writes, c.class_hash_initial_values),
     storage_writes |-> subtract_mappings(c.storage_writes, c.storage_initial_values)]

----------------------------------------------------------------------------
(* impl StateReader for CachedState.  An operation on layer i of a chain   *)
(* ls returns the chain as the operation leaves it, its result, and the    *)
(* queries made to the underlying reader (layer 0).  readerOk says whether *)
(* the underlying reader answers a query or returns a StateError.          *)

Outcome(ls, res, q) == [layers |-> ls, res |-> res, q |-> q]

RECURSIVE get_storage_at(_, _, _, _, _)
get_storage_at(ls, i, a, k, readerOk) ==
    IF i = 0
    THEN Outcome(ls, IF readerOk THEN Ok(reader.storage[<<a, k>>]) ELSE Err("StateReadError"),
                 {<<"storage", <<a, k>>>>})
    ELSE IF has_storage_at(ls[i], a, k)
    THEN Outcome(ls, Ok(StateCache_get_storage_at(ls[i], a, k)), {})
    ELSE LET r == get_storage_at(ls, i - 1, a, k, readerOk)
             ls2 == [r.layers EXCEPT ![i] = set_storage_initial_value(@, a, k, r.res.val)]
         IN  IF ~r.res.ok THEN r
             ELSE IF has_storage_at(ls2[i], a, k)
             THEN Outcome(ls2, Ok(StateCache_get_storage_at(ls2[i], a, k)), r.q)
             ELSE Outcome(ls2, Panic, r.q)

RECURSIVE get_nonce_at(_, _, _, _)
get_nonce_at(ls, i, a, readerOk) ==
    IF i = 0
    THEN Outcome(ls, IF readerOk THEN Ok(reader.nonce[a]) ELSE Err("StateReadError"),
                 {<<"nonce", a>>})
    ELSE IF has_nonce_at(ls[i], a)
    THEN Outcome(ls, Ok(StateCache_get_nonce_at(ls[i], a)), {})
    ELSE LET r == get_nonce_at(ls, i - 1, a, readerOk)
             ls2 == [r.layers EXCEPT ![i] = set_nonce_initial_value(@, a, r.res.val)]
         IN  IF ~r.res.ok THEN r
             ELSE IF has_nonce_at(ls2[i], a)
             THEN Outcome(ls2, Ok(StateCache_get_nonce_at(ls2[i], a)), r.q)
             ELSE Outcome(ls2, Panic, r.q)

RECURSIVE get_class_hash_at(_, _, _, _)
get_class_hash_at(ls, i, a, readerOk) ==
    IF i = 0
    THEN Outcome(ls, IF readerOk THEN Ok(reader.class_hash[a]) ELSE Err("StateReadError"),
                 {<<"class_hash", a>>})
    ELSE IF has_class_hash_at(ls[i], a)
    THEN Outcome(ls, Ok(StateCache_get_class_hash_at(ls[i], a)), {})
    ELSE LET r == get_class_hash_at(ls, i - 1, a, readerOk)
             ls2 == [r.layers EXCEPT ![i] = set_class_hash_initial_value(@, a, r.res.val)]
         IN  IF ~r.res.ok THEN r
             ELSE IF has_class_hash_at(ls2[i], a)
             THEN Outcome(ls2, Ok(StateCache_get_class_hash_at(ls2[i], a)), r.q)
             ELSE Outcome(ls2, Panic, r.q)

RECURSIVE get_contract_class(_, _, _, _)
get_contract_class(ls, i, h, readerOk) ==
    IF i = 0
    THEN Outcome(ls, IF readerOk THEN Ok(reader.contract_class[h]) ELSE Err("StateReadError"),
                 {<<"contract_class", h>>})
    ELSE IF h \in DOMAIN ls[i].class_hash_to_class
    THEN Outcome(ls, Ok(ls[i].class_hash_to_class[h]), {})
    ELSE LET r == get_contract_class(ls, i - 1, h, readerOk)
             ls2 == [r.layers EXCEPT ![i].class_hash_to_class = Insert(@, h, r.res.val)]
         IN  IF ~r.res.ok THEN r
             ELSE IF h \in DOMAIN ls2[i].class_hash_to_class
             THEN Outcome(ls2, Ok(ls2[i].class_hash_to_class[h]), r.q)
             ELSE Outcome(ls2, Panic, r.q)

----------------------------------------------------------------------------
(* impl State for CachedState. *)

set_storage_at(ls, i, a, k, v) ==
    Outcome([ls EXCEPT ![i] = set_storage_value(@, a, k, v)], Ok(Unit), {})

\* usize::try_from(StarkFelt) on a 64-bit target: fails unless the felt fits
usize_try_from(f) ==
    IF HighLimbs(f) = ZeroLimbs(FeltLimbs - U64Limbs) THEN Ok(LowU64(f)) ELSE Err("OutOfRange")

\* 1_u64 + current_nonce_as_u64.  When the sum does not fit in 64 bits the
\* build decides: with overflow checks (debug) the addition panics, without
\* them (release) it wraps.  `wraps` is that choice.
u64_add_one(w, wraps) ==
    LET s == AddOne(w)
    IN  IF s.carry /\ ~wraps THEN Panic ELSE Ok(s.val)

\* faulty variant: a failed read of the nonce is taken as the zero nonce
increment_nonce_despite_error(ls, i, a, readerOk, wraps) ==
    LET r == get_nonce_at(ls, i, a, readerOk)
    IN  IF ~r.res.ok
        THEN Outcome([r.layers EXCEPT ![i] = set_nonce_value(@, a, FeltFromU64(U64(1)))],
                     r.res, r.q)
        ELSE LET current_nonce_as_u64 == usize_try_from(r.res.val)
                 next_nonce_val == u64_add_one(current_nonce_as_u64.val, wraps)
                 next_nonce == FeltFromU64(next_nonce_val.val)
             IN  IF ~current_nonce_as_u64.ok THEN Outcome(r.layers, current_nonce_as_u64, r.q)
                 ELSE IF ~next_nonce_val.ok THEN Outcome(r.layers, next_nonce_val, r.q)
                 ELSE Outcome([r.layers EXCEPT ![i] = set_nonce_value(@, a, next_nonce)],
                              Ok(Unit), r.q)
increment_nonce(ls, i, a, readerOk, wraps) ==
    LET r == get_nonce_at(ls, i, a, readerOk)
        current_nonce_as_u64 == usize_try_from(r.res.val)
        next_nonce_val == u64_add_one(current_nonce_as_u64.val, wraps)
        next_nonce == FeltFromU64(next_nonce_val.val)
    IN  IF ~r.res.ok THEN r
        ELSE IF ~current_nonce_as_u64.ok THEN Outcome(r.layers, current_nonce_as_u64, r.q)
        ELSE IF ~next_nonce_val.ok THEN Outcome(r.layers, next_nonce_val, r.q)
        ELSE Outcome([r.layers EXCEPT ![i] = set_nonce_value(@, a, next_nonce)], Ok(Unit), r.q)

\* faulty variant: an occupied address is bound again
set_class_hash_at_rebinds(ls, i, a, h, readerOk) ==
    IF a = 0
    THEN Outcome(ls, Err("OutOfRangeContractAddress"), {})
    ELSE LET r == get_class_hash_at(ls, i, a, readerOk)
         IN  IF ~r.res.ok THEN r
             ELSE Outcome([r.layers EXCEPT ![i] = set_class_hash_write(@, a, h)], Ok(Unit), r.q)
\* faulty variant: the zero address is checked after the read, as any other address
set_class_hash_at_reads_first(ls, i, a, h, readerOk) ==
    LET r == get_class_hash_at(ls, i, a, readerOk)
    IN  IF ~r.res.ok THEN r
        ELSE IF a = 0 THEN Outcome(r.layers, Err("OutOfRangeContractAddress"), r.q)
        ELSE IF r.res.val # 0
        THEN Outcome(r.layers, ErrAt("UnavailableContractAddress", a), r.q)
        ELSE Outcome([r.layers EXCEPT ![i] = set_class_hash_write(@, a, h)], Ok(Unit), r.q)
set_class_hash_at(ls, i, a, h, readerOk) ==
    IF a = 0
    THEN Outcome(ls, Err("OutOfRangeContractAddress"), {})
    ELSE LET r == get_class_hash_at(ls, i, a, readerOk)
         IN  IF ~r.res.ok THEN r
             ELSE IF r.res.val # 0
             THEN Outcome(r.layers, ErrAt("UnavailableContractAddress", a), r.q)
             ELSE Outcome([r.layers EXCEPT ![i] = set_class_hash_write(@, a, h)], Ok(Unit), r.q)

set_contract_class(ls, i, h, cc) ==
    Outcome([ls EXCEPT ![i].class_hash_to_class = Insert(@, h, cc)], Ok(Unit), {})

\* the orders in which a HashMap with the keys S may be iterated: the std
\* HashMap hashes with a RandomState seeded per map, so any order may come
Orders(S) == {o \in [1..Cardinality(S) -> S] : \A x \in S : \E j \in DOMAIN o : o[j] = x}

\* IndexMap: the sequence of its <<key, value>> entries, in insertion order
IndexMap_new == <<>>
IndexMap_keys(im) == {im[j][1] : j \in DOMAIN im}
IndexMap_get(im, k) == im[CHOOSE j \in DOMAIN im : im[j][1] = k][2]
\* IndexMap::insert: the value of a key present is replaced in place, a new
\* key is appended
IndexMap_insert(im, k, v) ==
    IF k \in IndexMap_keys(im)
    THEN [j \in DOMAIN im |-> IF im[j][1] = k THEN <<k, v>> ELSE im[j]]
    ELSE Append(im, <<k, v>>)
\* IndexMap::from_iter over a HashMap m iterated in `order`
RECURSIVE IndexMap_from_iter(_, _)
IndexMap_from_iter(m, order) ==
    IF order = <<>> THEN IndexMap_new
    ELSE LET k == order[Len(order)]
         IN  IndexMap_insert(IndexMap_from_iter(m, SubSeq(order, 1, Len(order) - 1)), k, m[k])

\* From<StorageView>: the storage writes, iterated in `order`, grouped by
\* contract address
RECURSIVE StorageDiff(_, _)
StorageDiff(storage_view, order) ==
    IF order = <<>> THEN IndexMap_new
    ELSE LET x == order[Len(order)]
             storage_updates == StorageDiff(storage_view, SubSeq(order, 1, Len(order) - 1))
         IN  IF x[1] \in IndexMap_keys(storage_updates)
             THEN IndexMap_insert(storage_updates, x[1],
                      IndexMap_insert(IndexMap_get(storage_updates, x[1]), x[2], storage_view[x]))
             ELSE IndexMap_insert(storage_updates, x[1], <<<<x[2], storage_view[x]>>>>)

\* what decides the iteration orders of the maps of a state cache diff (the
\* seeds of their hashers): an order of all the keys a map may hold
Iterations ==
    [class_hash : Orders(ContractAddress),
     storage : Orders(ContractStorageKey),
     nonce : Orders(ContractAddress)]
\* HashMap::into_iter of map m: its keys, in the order `all` puts them in
IterationOrder(m, all) == SelectSeq(all, LAMBDA x : x \in DOMAIN m)

\* faulty variant: the writes are reported whole, initial values not subtracted
to_state_diff_all_writes(c, it) ==
    [deployed_contracts |->
         IndexMap_from_iter(c.class_hash_writes, IterationOrder(c.class_hash_writes, it.class_hash)),
     storage_diffs |-> StorageDiff(c.storage_writes, IterationOrder(c.storage_writes, it.storage)),
     declared_classes |-> IndexMap_new,
     nonces |-> IndexMap_from_iter(c.nonce_writes, IterationOrder(c.nonce_writes, it.nonce))]
\* CachedState::to_state_diff, with the maps of the diff iterated as `it` says
to_state_diff(c, it) ==
    LET state_cache_diff == get_state_diff(c)
        deployed == state_cache_diff.class_hash_writes
        storage == state_cache_diff.storage_writes
        nonces == state_cache_diff.nonce_writes
    IN  [deployed_contracts |->
             IndexMap_from_iter(deployed, IterationOrder(deployed, it.class_hash)),
         storage_diffs |-> StorageDiff(storage, IterationOrder(storage, it.storage)),
         declared_classes |-> IndexMap_new,
         nonces |-> IndexMap_from_iter(nonces, IterationOrder(nonces, it.nonce))]
\* the state diffs to_state_diff may return for cache c: what the iteration
\* orders can change is the order of the keys c has written
StateDiffs(c) ==
    {to_state_diff(c, it) : it \in [class_hash : Orders(DOMAIN c.class_hash_writes),
                                     storage : Orders(DOMAIN c.storage_writes),
                                     nonce : Orders(DOMAIN c.nonce_writes)]}

\* an IndexMap as a map (IndexMap equality does not look at the order)
AsMap(im) == [k \in IndexMap_keys(im) |-> IndexMap_get(im, k)]
StateDiffAsMaps(d) ==
    [deployed_contracts |-> AsMap(d.deployed_contracts),
     storage_diffs |-> [a \in IndexMap_keys(d.storage_diffs) |->
                           AsMap(IndexMap_get(d.storage_diffs, a))],
     declared_classes |-> AsMap(d.declared_classes),
     nonces |-> AsMap(d.nonces)]
\* PartialEq of StateDiff
StateDiffEq(d, e) == StateDiffAsMaps(d) = StateDiffAsMaps(e)
\* the state diff of cache c, as maps (the iteration orders do not show in it)
AnIteration == CHOOSE it \in Iterations : TRUE
DiffOf(c) == StateDiffAsMaps(to_state_diff(c, AnIteration))

----------------------------------------------------------------------------
(* Ending a child layer. *)

\* faulty variant: an entry the parent already holds is kept
merge_parent_wins(parent, child) ==
    [parent EXCEPT
        !.nonce_writes = Extend(child.nonce_writes, @),
        !.class_hash_writes = Extend(child.class_hash_writes, @),
        !.storage_writes = Extend(child.storage_writes, @),
        !.class_hash_to_class = Extend(child.class_hash_to_class, @)]
\* CachedState::merge: the child's write maps and classes extend the parent's
merge(parent, child) ==
    [parent EXCEPT
        !.nonce_writes = Extend(@, child.nonce_writes),
        !.class_hash_writes = Extend(@, child.class_hash_writes),
        !.storage_writes = Extend(@, child.storage_writes),
        !.class_hash_to_class = Extend(@, child.class_hash_to_class)]

\* the first loop of commit: set_class_hash_at on the parent (layer i) for
\* the addresses of `order`, stopping at the first error
RECURSIVE commit_class_hashes(_, _, _, _, _)
commit_class_hashes(ls, i, order, writes, readerOk) ==
    IF order = <<>> THEN Outcome(ls, Ok(Unit), {})
    ELSE LET r == set_class_hash_at(ls, i, Head(order), writes[Head(order)], readerOk)
             rest == commit_class_hashes(r.layers, i, Tail(order), writes, readerOk)
         IN  IF ~r.res.ok THEN r
             ELSE Outcome(rest.layers, rest.res, r.q \cup rest.q)

\* the second loop of commit: set_storage_at on the parent for every entry
RECURSIVE commit_storage(_, _, _)
commit_storage(ls, i, writes) ==
    IF DOMAIN writes = {} THEN ls
    ELSE LET x == CHOOSE y \in DOMAIN writes : TRUE
             rest == [y \in DOMAIN writes \ {x} |-> writes[y]]
         IN  commit_storage(set_storage_at(ls, i, x[1], x[2], writes[x]).layers, i, rest)

\* TransactionalState::commit of the top layer of ls into the layer below:
\* the child is consumed; the nonce writes are not replayed
commit(ls, order, readerOk) ==
    LET i == Len(ls)
        state_diff == get_state_diff(ls[i])
        below == SubSeq(ls, 1, i - 1)
        r == commit_class_hashes(below, i - 1, order, state_diff.class_hash_writes, readerOk)
    IN  IF ~r.res.ok THEN r
        ELSE Outcome(commit_storage(r.layers, i - 1, state_diff.storage_writes), Ok(Unit), r.q)

\* faulty variant: the dropped child's writes reach the parent
abort_keeps_writes(ls) == [SubSeq(ls, 1, Len(ls) - 1) EXCEPT ![Len(ls) - 1] = merge(@, ls[Len(ls)])]
\* TransactionalState::abort and CachedState::abort: the child is dropped
abort(ls) == SubSeq(ls, 1, Len(ls) - 1)

----------------------------------------------------------------------------
(* The state machine.  The operations act on the top layer of the chain:   *)
(* a child holds its parent by `&mut` (StateWrapper), so while a child is  *)
(* open the layers below are reached only through it.                      *)

Top == Len(layers)
Front(s) == SubSeq(s, 1, Len(s) - 1)

\* the nonces an underlying reader is given: 0, 2^64 - 2, 2^64 - 1 (the
\* largest u64), 2^64 (the least felt above the low 64 bits) and P - 1
NonceInputs == {FeltZero, FeltFromU64(U64MaxMinus1), FeltFromU64(U64Max), FeltTwoTo64, FeltMax}

NoBinds == [a \in ContractAddress |-> <<>>]

Record(op, args, res, q, child, opened) ==
    [op |-> op, layer |-> Top, args |-> args, res |-> res, q |-> q,
     child |-> child, opened |-> opened]

InitCache ==
    /\ layers = <<NewCachedState>>
    /\ snap = <<>>
    /\ last = Record("new", <<>>, Ok(Unit), {}, "none", "none")
    /\ binds = <<NoBinds>>
    /\ written = <<EmptyMap>>
    /\ panicked = FALSE
    /\ nops = 0

\* a cache driven through the State interface: no call frame
InitCommon == InitCache /\ frames = <<>>

\* the class every class hash is declared with in the underlying reader
DeclaredClass(h) == IF h = 2 THEN "classB" ELSE "classA"

\* the underlying readers: any storage, nonces and class hashes; the zero
\* address holds no contract
Readers ==
    {r \in [storage : [ContractStorageKey -> StarkFelt],
            nonce : [ContractAddress -> NonceInputs],
            class_hash : [ContractAddress -> ClassHash],
            contract_class : {[h \in ClassHash |-> DeclaredClass(h)]}] :
        r.class_hash[0] = 0}

\* a reader whose storage holds the contract address in every cell
AddressStorage == [c \in ContractStorageKey |-> c[1]]
NoNonces == [a \in ContractAddress |-> FeltZero]
NoContracts == [a \in ContractAddress |-> 0]

\* all operations, on two readers: address 1 holds the largest u64 nonce,
\* and a contract or none
Init ==
    /\ reader \in Readers
    /\ reader.storage = AddressStorage
    /\ reader.nonce[0] = FeltZero
    /\ reader.nonce[1] = FeltFromU64(U64Max)
    /\ reader.class_hash[1] \in {0, 1}
    /\ InitCommon

\* the storage operations, on every storage of address 1
InitStorage ==
    /\ reader \in Readers
    /\ \A k \in StorageKey : reader.storage[<<0, k>>] = 0
    /\ reader.nonce = NoNonces
    /\ reader.class_hash = NoContracts
    /\ InitCommon

\* the nonce operations, on every nonce of address 1
InitNonce ==
    /\ reader \in Readers
    /\ reader.storage = AddressStorage
    /\ reader.nonce[0] = FeltZero
    /\ reader.class_hash = NoContracts
    /\ InitCommon

\* the class-code operations
InitCode ==
    /\ reader \in Readers
    /\ reader.storage = AddressStorage
    /\ reader.nonce = NoNonces
    /\ reader.class_hash = NoContracts
    /\ InitCommon

\* the class-hash operations, on every class hash of address 1
InitClass ==
    /\ reader \in Readers
    /\ reader.storage = AddressStorage
    /\ reader.nonce = NoNonces
    /\ InitCommon

\* an operation of the State / StateReader interface on the top layer
Apply(op, args, r) ==
    /\ ~panicked
    /\ layers' = r.layers
    /\ panicked' = IsPanic(r.res)
    /\ last' = Record(op, args, r.res, r.q, "none", "none")
    /\ UNCHANGED <<reader, snap>>

GetStorageAt ==
    \E a \in ContractAddress, k \in StorageKey, readerOk \in BOOLEAN :
        /\ Apply("get_storage_at", <<a, k>>, get_storage_at(layers, Top, a, k, readerOk))
        /\ UNCHANGED <<binds, written>>

GetNonceAt ==
    \E a \in ContractAddress, readerOk \in BOOLEAN :
        /\ Apply("get_nonce_at", <<a>>, get_nonce_at(layers, Top, a, readerOk))
        /\ UNCHANGED <<binds, written>>

GetClassHashAt ==
    \E a \in ContractAddress, readerOk \in BOOLEAN :
        /\ Apply("get_class_hash_at", <<a>>, get_class_hash_at(layers, Top, a, readerOk))
        /\ UNCHANGED <<binds, written>>

GetContractClass ==
    \E h \in ClassHash, readerOk \in BOOLEAN :
        /\ Apply("get_contract_class", <<h>>, get_contract_class(layers, Top, h, readerOk))
        /\ UNCHANGED <<binds, written>>

SetStorageAt ==
    \E a \in ContractAddress, k \in StorageKey, v \in StarkFelt :
        /\ Apply("set_storage_at", <<a, k, v>>, set_storage_at(layers, Top, a, k, v))
        /\ written' = [written EXCEPT ![Top] = Insert(@, <<a, k>>, v)]
        /\ UNCHANGED binds

IncrementNonce ==
    \E a \in ContractAddress, readerOk \in BOOLEAN, wraps \in BOOLEAN :
        /\ Apply("increment_nonce", <<a>>, increment_nonce(layers, Top, a, readerOk, wraps))
        /\ UNCHANGED <<binds, written>>

SetClassHashAt ==
    \E a \in ContractAddress, h \in ClassHash, readerOk \in BOOLEAN :
        LET r == set_class_hash_at(layers, Top, a, h, readerOk)
        IN  /\ Apply("set_class_hash_at", <<a, h>>, r)
            /\ binds' = IF r.res.ok THEN [binds EXCEPT ![Top][a] = Append(@, h)] ELSE binds
            /\ UNCHANGED written

SetContractClass ==
    \E h \in ClassHash, cc \in ContractClass :
        /\ Apply("set_contract_class", <<h, cc>>, set_contract_class(layers, Top, h, cc))
        /\ UNCHANGED <<binds, written>>

ToStateDiff ==
    \E state_diff \in StateDiffs(layers[Top]) :
        /\ Apply("to_state_diff", <<>>, Outcome(layers, Ok(state_diff), {}))
        /\ UNCHANGED <<binds, written>>

\* CachedState::new(StateWrapper::new(&mut parent)): a child over the top layer
OpenChild ==
    /\ ~panicked
    /\ Top < MaxDepth
    /\ layers' = Append(layers, NewCachedState)
    /\ snap' = Append(snap, layers[Top])
    /\ binds' = Append(binds, NoBinds)
    /\ written' = Append(written, EmptyMap)
    /\ last' = Record("new", <<>>, Ok(Unit), {}, "none", "none")
    /\ UNCHANGED <<reader, panicked>>

\* the records of the bindings and of the storage writes when the top layer
\* ends in its parent
JoinWritten == [Front(written) EXCEPT ![Top - 1] = Extend(@, written[Top])]
JoinBinds == [Front(binds) EXCEPT ![Top - 1] = [a \in ContractAddress |-> @[a] \o binds[Top][a]]]

Merge ==
    /\ ~panicked
    /\ Top >= 2
    /\ layers' = [Front(layers) EXCEPT ![Top - 1] = merge(@, layers[Top])]
    /\ snap' = Front(snap)
    /\ binds' = JoinBinds
    /\ written' = JoinWritten
    /\ last' = Record("merge", <<>>, Ok(Unit), {}, layers[Top], snap[Top - 1])
    /\ UNCHANGED <<reader, panicked>>

Commit ==
    \E order \in Orders(DOMAIN get_state_diff(layers[Top]).class_hash_writes),
       readerOk \in BOOLEAN :
        LET r == commit(layers, order, readerOk)
        IN  /\ ~panicked
            /\ Top >= 2
            /\ layers' = r.layers
            /\ snap' = Front(snap)
            /\ binds' = JoinBinds
            /\ written' = JoinWritten
            /\ panicked' = IsPanic(r.res)
            /\ last' = Record("commit", <<>>, r.res, r.q, layers[Top], snap[Top - 1])
            /\ UNCHANGED reader

Abort ==
    /\ ~panicked
    /\ Top >= 2
    /\ layers' = abort(layers)
    /\ snap' = Front(snap)
    /\ binds' = Front(binds)
    /\ written' = Front(written)
    /\ last' = Record("abort", <<>>, Ok(Unit), {}, layers[Top], snap[Top - 1])
    /\ UNCHANGED <<reader, panicked>>

\* at most n operations in a behaviour; an operation of the State interface
\* touches no syscall handler
Budget(n, A) == nops < n /\ A /\ nops' = nops + 1 /\ UNCHANGED frames

Next ==
    \/ Budget(MaxOps, GetStorageAt)
    \/ Budget(MaxOps, GetNonceAt)
    \/ Budget(MaxOps, GetClassHashAt)
    \/ Budget(MaxOps, GetContractClass)
    \/ Budget(MaxOps, SetStorageAt)
    \/ Budget(MaxOps, IncrementNonce)
    \/ Budget(MaxOps, SetClassHashAt)
    \/ Budget(MaxOps, SetContractClass)
    \/ Budget(MaxOps, ToStateDiff)
    \/ Budget(MaxOps, OpenChild)
    \/ Budget(MaxOps, Merge)
    \/ Budget(MaxOps, Commit)
    \/ Budget(MaxOps, Abort)

Spec == Init /\ [][Next]_vars

NextStorage ==
    \/ Budget(MaxStorageOps, GetStorageAt)
    \/ Budget(MaxStorageOps, SetStorageAt)
    \/ Budget(MaxStorageOps, ToStateDiff)
    \/ Budget(MaxStorageOps, OpenChild)
    \/ Budget(MaxStorageOps, Merge)
    \/ Budget(MaxStorageOps, Commit)
    \/ Budget(MaxStorageOps, Abort)

SpecStorage == InitStorage /\ [][NextStorage]_vars

NextNonce ==
    \/ Budget(MaxFamilyOps, GetNonceAt)
    \/ Budget(MaxFamilyOps, IncrementNonce)
    \/ Budget(MaxFamilyOps, ToStateDiff)
    \/ Budget(MaxFamilyOps, OpenChild)
    \/ Budget(MaxFamilyOps, Merge)
    \/ Budget(MaxFamilyOps, Commit)
    \/ Budget(MaxFamilyOps, Abort)

SpecNonce == InitNonce /\ [][NextNonce]_vars

NextClass ==
    \/ Budget(MaxFamilyOps, GetClassHashAt)
    \/ Budget(MaxFamilyOps, SetClassHashAt)
    \/ Budget(MaxFamilyOps, ToStateDiff)
    \/ Budget(MaxFamilyOps, OpenChild)
    \/ Budget(MaxFamilyOps, Merge)
    \/ Budget(MaxFamilyOps, Commit)
    \/ Budget(MaxFamilyOps, Abort)

SpecClass == InitClass /\ [][NextClass]_vars

NextCode ==
    \/ Budget(MaxFamilyOps, GetContractClass)
    \/ Budget(MaxFamilyOps, SetContractClass)
    \/ Budget(MaxFamilyOps, OpenChild)
    \/ Budget(MaxFamilyOps, Merge)
    \/ Budget(MaxFamilyOps, Commit)
    \/ Budget(MaxFamilyOps, Abort)

SpecCode == InitCode /\ [][NextCode]_vars

NextWrites ==
    \/ Budget(MaxWriteOps, SetStorageAt)
    \/ Budget(MaxWriteOps, IncrementNonce)
    \/ Budget(MaxWriteOps, SetClassHashAt)
    \/ Budget(MaxWriteOps, OpenChild)
    \/ Budget(MaxWriteOps, Merge)
    \/ Budget(MaxWriteOps, Commit)
    \/ Budget(MaxWriteOps, Abort)

SpecWrites == Init /\ [][NextWrites]_vars

----------------------------------------------------------------------------
(* What a read of layer i returns when the underlying reader answers.      *)

ReadStorage(ls, i, c) == get_storage_at(ls, i, c[1], c[2], TRUE).res.val
ReadNonce(ls, i, a) == get_nonce_at(ls, i, a, TRUE).res.val
ReadClassHash(ls, i, a) == get_class_hash_at(ls, i, a, TRUE).res.val
ReadClass(ls, i, h) == get_contract_class(ls, i, h, TRUE).res.val

\* every initial value and loaded class of cache c is in cache d, unchanged
Kept(m, n) == \A x \in DOMAIN m : x \in DOMAIN n /\ n[x] = m[x]
InitialsKept(c, d) ==
    /\ Kept(c.storage_initial_values, d.storage_initial_values)
    /\ Kept(c.nonce_initial_values, d.nonce_initial_values)
    /\ Kept(c.class_hash_initial_values, d.class_hash_initial_values)
SameWrites(c, d) ==
    /\ c.storage_writes = d.storage_writes
    /\ c.nonce_writes = d.nonce_writes
    /\ c.class_hash_writes = d.class_hash_writes

----------------------------------------------------------------------------
(* C1 *)

\* the value of the last set_storage_at on cell c held by layer i or, failing
\* that, by the layers it reads from; the underlying reader's value if none
RECURSIVE LastWritten(_, _)
LastWritten(i, c) ==
    IF i = 0 THEN reader.storage[c]
    ELSE IF c \in DOMAIN written[i] THEN written[i][c]
    ELSE LastWritten(i - 1, c)

\* C1: get_storage_at(a,k) returns the value of the most recent
\* set_storage_at(a,k,v) on the cache (without needing its reader), or, if the
\* cell was never written, the value its reader holds for (a,k); it fails
\* only with the reader's error.
C1_ReadReturnsLastWrite ==
    last.op = "get_storage_at" =>
        LET c == <<last.args[1], last.args[2]>>
        IN  /\ c \in DOMAIN written[Top] => last.res.ok /\ last.res.val = written[Top][c]
            /\ last.res.ok => last.res.val = LastWritten(Top, c)
            /\ ~last.res.ok => last.res.err = "StateReadError"

\* a read that returns a written value which differs from the value the
\* cache had first read for the cell
C1_Witness ==
    /\ last.op = "get_storage_at"
    /\ last.res.ok
    /\ LET c == <<last.args[1], last.args[2]>>
       IN  /\ c \in DOMAIN written[Top]
           /\ c \in DOMAIN layers[Top].storage_initial_values
           /\ layers[Top].storage_initial_values[c] # last.res.val

----------------------------------------------------------------------------
(* C2 *)

\* C2: in every step, every layer that stays keeps each entry of its three
\* initial-value maps, with its value (so no map shrinks).
C2_InitialValuesWriteOnce ==
    [][\A i \in 1..Len(layers) :
          i <= Len(layers') => InitialsKept(layers[i], layers'[i])]_vars

\* a merge into a parent that holds an initial nonce which the child's
\* write differs from
C2_Witness ==
    /\ last.op = "merge"
    /\ \E a \in DOMAIN last.child.nonce_writes :
          /\ a \in DOMAIN layers[Top].nonce_initial_values
          /\ layers[Top].nonce_initial_values[a] # last.child.nonce_writes[a]

----------------------------------------------------------------------------
(* C3 *)

\* C3 as claimed: after abort the parent's whole state equals its state
\* when the child was opened.
C3_AbortRestoresWholeParent ==
    last.op = "abort" => layers[Top] = last.opened

\* the entries cache p has gained over cache o hold what p's reader holds
GainedFromReader(o, p) ==
    /\ \A c \in DOMAIN p.storage_initial_values \ DOMAIN o.storage_initial_values :
          p.storage_initial_values[c] = ReadStorage(layers, Top - 1, c)
    /\ \A a \in DOMAIN p.nonce_initial_values \ DOMAIN o.nonce_initial_values :
          p.nonce_initial_values[a] = ReadNonce(layers, Top - 1, a)
    /\ \A a \in DOMAIN p.class_hash_initial_values \ DOMAIN o.class_hash_initial_values :
          p.class_hash_initial_values[a] = ReadClassHash(layers, Top - 1, a)
    /\ \A h \in DOMAIN p.class_hash_to_class \ DOMAIN o.class_hash_to_class :
          p.class_hash_to_class[h] = ReadClass(layers, Top - 1, h)

\* C3 (amended): after abort the parent's write maps equal those it had when
\* the child was opened and every read of the parent returns what it would
\* have returned then; its initial-value maps and class cache keep their
\* entries and may have gained entries read through from the parent's reader.
C3_AbortRestoresWritesAndReads ==
    last.op = "abort" =>
        LET p == layers[Top]
            o == last.opened
            before == [layers EXCEPT ![Top] = o]
        IN  /\ SameWrites(o, p)
            /\ InitialsKept(o, p)
            /\ Kept(o.class_hash_to_class, p.class_hash_to_class)
            /\ GainedFromReader(o, p)
            /\ \A c \in ContractStorageKey : ReadStorage(layers, Top, c) = ReadStorage(before, Top, c)
            /\ \A a \in ContractAddress : ReadNonce(layers, Top, a) = ReadNonce(before, Top, a)
            /\ \A a \in ContractAddress :
                  ReadClassHash(layers, Top, a) = ReadClassHash(before, Top, a)
            /\ \A h \in ClassHash : ReadClass(layers, Top, h) = ReadClass(before, Top, h)

\* an abort of a child that had read through the parent, which has gained
\* an entry since the child was opened
C3_Witness ==
    /\ last.op = "abort"
    /\ layers[Top] # last.opened
    /\ last.child # NewCachedState

----------------------------------------------------------------------------
(* C4 *)

\* C4: after the abort of a child, every storage cell the parent had written
\* reads as the parent wrote it, every cell reads as it did when the child was
\* opened, and the parent's state diff is the one it had then.
C4_AbortDiscardsChildWrites ==
    last.op = "abort" =>
        LET o == last.opened
            before == [layers EXCEPT ![Top] = o]
        IN  /\ \A c \in DOMAIN o.storage_writes : ReadStorage(layers, Top, c) = o.storage_writes[c]
            /\ \A c \in ContractStorageKey : ReadStorage(layers, Top, c) = ReadStorage(before, Top, c)
            /\ DiffOf(layers[Top]) = DiffOf(o)

\* an abort of a child that had overwritten a cell the parent had written,
\* with another value
C4_Witness ==
    /\ last.op = "abort"
    /\ \E c \in DOMAIN last.opened.storage_writes :
          /\ c \in DOMAIN last.child.storage_writes
          /\ last.child.storage_writes[c] # last.opened.storage_writes[c]

----------------------------------------------------------------------------
(* C5 *)

\* C5: a merge step leaves the parent reading, for every storage cell, nonce
\* and class-hash binding the child wrote, the child's value, and for every
\* other one what the parent read before; the parent's initial-value maps
\* are unchanged by the step.
C5_MergeOverwritesParent ==
    [][last'.op = "merge" =>
          LET c == layers[Top]
              p == layers[Top - 1]
              before == Front(layers)
          IN  /\ \A x \in ContractStorageKey :
                    ReadStorage(layers', Top - 1, x) =
                        IF x \in DOMAIN c.storage_writes THEN c.storage_writes[x]
                        ELSE ReadStorage(before, Top - 1, x)
              /\ \A a \in ContractAddress :
                    ReadNonce(layers', Top - 1, a) =
                        IF a \in DOMAIN c.nonce_writes THEN c.nonce_writes[a]
                        ELSE ReadNonce(before, Top - 1, a)
              /\ \A a \in ContractAddress :
                    ReadClassHash(layers', Top - 1, a) =
                        IF a \in DOMAIN c.class_hash_writes THEN c.class_hash_writes[a]
                        ELSE ReadClassHash(before, Top - 1, a)
              /\ layers'[Top - 1].storage_initial_values = p.storage_initial_values
              /\ layers'[Top - 1].nonce_initial_values = p.nonce_initial_values
              /\ layers'[Top - 1].class_hash_initial_values = p.class_hash_initial_values]_vars

\* a merge of a child that had overwritten, with another value, a storage
\* cell the parent had written
C5_Witness ==
    /\ last.op = "merge"
    /\ \E x \in DOMAIN last.child.storage_writes :
          /\ x \in DOMAIN last.opened.storage_writes
          /\ last.opened.storage_writes[x] # last.child.storage_writes[x]
          /\ ReadStorage(layers, Top, x) = last.child.storage_writes[x]

----------------------------------------------------------------------------
(* C6 *)

\* C6: after a child is committed to its parent, by commit as by merge, the
\* parent's get_nonce_at(a) returns the child's nonce for every address whose
\* nonce the child incremented.
C6_CommitCarriesNonce ==
    (last.op \in {"commit", "merge"} /\ last.res.ok) =>
        \A a \in DOMAIN last.child.nonce_writes :
            ReadNonce(layers, Top, a) = last.child.nonce_writes[a]

----------------------------------------------------------------------------
(* C7 *)

\* the class hashes of the Ok set_class_hash_at(a, _) calls the chain holds,
\* outermost layer first
RECURSIVE BindsUpTo(_, _)
BindsUpTo(i, a) == IF i = 0 THEN <<>> ELSE BindsUpTo(i - 1, a) \o binds[i][a]
ChainBinds(a) == BindsUpTo(Len(binds), a)

\* C7 as claimed: on a chain of caches set_class_hash_at(a, h) returns Ok at
\* most once per address, whatever h, and never for the zero address.
C7_BindsAtMostOnce ==
    /\ \A a \in ContractAddress : Len(ChainBinds(a)) <= 1
    /\ ChainBinds(0) = <<>>

\* C7 (amended): on a chain of caches (layers ended by abort apart)
\* set_class_hash_at(a, h) with a nonzero class hash h returns Ok at most
\* once per address, and no call for that address returns Ok after it; only
\* calls with the zero class hash, which leave the address unbound, may
\* return Ok before it, any number of times.  set_class_hash_at(0, h) never
\* returns Ok.
C7_BindsNonzeroAtMostOnce ==
    /\ \A a \in ContractAddress :
          \A j \in 1..Len(ChainBinds(a)) : j < Len(ChainBinds(a)) => ChainBinds(a)[j] = 0
    /\ ChainBinds(0) = <<>>

\* a set_class_hash_at that fails on an address the chain has bound to a
\* nonzero class hash, after a zero binding of that address
C7_Witness ==
    /\ last.op = "set_class_hash_at"
    /\ last.res.err = "UnavailableContractAddress"
    /\ LET b == ChainBinds(last.args[1])
       IN  Len(b) = 2 /\ b[1] = 0 /\ b[2] # 0

----------------------------------------------------------------------------
(* C8 *)

\* C8: set_class_hash_at(a, h) on the zero address fails with
\* OutOfRangeContractAddress without a query to the reader and without a
\* change of the chain; on an address whose current class hash is nonzero it
\* fails with UnavailableContractAddress(a); a failure leaves the class-hash
\* writes and the class hash read at a as they were; otherwise a -> h is
\* inserted into the class-hash writes.
C8_SetClassHashAt ==
    [][last'.op = "set_class_hash_at" =>
          LET a == last'.args[1]
              h == last'.args[2]
              r == last'.res
              current == ReadClassHash(layers, Top, a)
          IN  /\ a = 0 =>
                    r = Err("OutOfRangeContractAddress") /\ last'.q = {} /\ layers' = layers
              /\ (a # 0 /\ r.err # "StateReadError") =>
                    IF current # 0
                    THEN r = ErrAt("UnavailableContractAddress", a)
                    ELSE /\ r = Ok(Unit)
                         /\ layers'[Top].class_hash_writes =
                                Insert(layers[Top].class_hash_writes, a, h)
              /\ ~r.ok =>
                    /\ layers'[Top].class_hash_writes = layers[Top].class_hash_writes
                    /\ ReadClassHash(layers', Top, a) = current]_vars

\* a set_class_hash_at that fails on an address this cache has bound
C8_Witness ==
    /\ last.op = "set_class_hash_at"
    /\ last.res = ErrAt("UnavailableContractAddress", last.args[1])
    /\ last.args[1] \in DOMAIN layers[Top].class_hash_writes
    /\ layers[Top].class_hash_writes[last.args[1]] # last.args[2]

----------------------------------------------------------------------------
(* C9 *)

\* C9: a successful increment_nonce(a) makes the nonce read at a its
\* previous value plus 1 (modulo 2^64), no other operation of the State
\* interface changes it, and in no step does the nonce a layer reads at an
\* address decrease.
C9_NonceNeverDecreases ==
    [][/\ \A i \in 1..Len(layers), a \in ContractAddress :
             i <= Len(layers') => FeltLeq(ReadNonce(layers, i, a), ReadNonce(layers', i, a))
       /\ \A a \in ContractAddress :
             (Len(layers') = Len(layers) /\ ~panicked') =>
                 ReadNonce(layers', Top, a) =
                     IF last'.op = "increment_nonce" /\ last'.res.ok /\ last'.args[1] = a
                     THEN FeltFromU64(AddOne(LowU64(ReadNonce(layers, Top, a))).val)
                     ELSE ReadNonce(layers, Top, a)]_vars

----------------------------------------------------------------------------
(* C10 *)

\* C10: increment_nonce(a) on an address whose current nonce is 2^64 - 1
\* returns a nonce-overflow error value and leaves the nonce writes unchanged:
\* it neither wraps nor aborts the program.
C10_OverflowIsAnError ==
    [][(/\ last'.op = "increment_nonce"
        /\ last'.res.err # "StateReadError"
        /\ ReadNonce(layers, Top, last'.args[1]) = FeltFromU64(U64Max)) =>
          /\ ~panicked'
          /\ ~last'.res.ok
          /\ last'.res.err = "NonceOverflow"
          /\ layers'[Top].nonce_writes = layers[Top].nonce_writes]_vars

----------------------------------------------------------------------------
(* C11 *)

\* the keys of an IndexMap are distinct
DistinctKeys(im) == Cardinality(IndexMap_keys(im)) = Len(im)
\* cell x is listed in the storage diffs D (as maps)
InStorageDiffs(D, x) == x[1] \in DOMAIN D.storage_diffs /\ x[2] \in DOMAIN D.storage_diffs[x[1]]
\* key x of the write map w has no equal entry in the initial-value map n
Differs(w, n, x) == x \in DOMAIN w /\ ~(x \in DOMAIN n /\ n[x] = w[x])

\* C11: to_state_diff returns exactly the storage writes that differ from the
\* initial value recorded for the cell (a write with no recorded initial value
\* differs), grouped by address with every address and every key of an
\* address listed once and no address without keys; the nonce writes and the
\* class-hash writes that differ from their initial value, every address
\* once; and no declared classes.
C11_DiffIsWritesLessInitials ==
    last.op = "to_state_diff" =>
        LET c == layers[Top]
            d == last.res.val
            D == StateDiffAsMaps(d)
        IN  /\ DistinctKeys(d.storage_diffs) /\ DistinctKeys(d.nonces)
            /\ DistinctKeys(d.deployed_contracts)
            /\ \A j \in DOMAIN d.storage_diffs :
                  d.storage_diffs[j][2] # <<>> /\ DistinctKeys(d.storage_diffs[j][2])
            /\ \A x \in ContractStorageKey :
                  /\ InStorageDiffs(D, x) <=> Differs(c.storage_writes, c.storage_initial_values, x)
                  /\ InStorageDiffs(D, x) => D.storage_diffs[x[1]][x[2]] = c.storage_writes[x]
            /\ \A a \in ContractAddress :
                  /\ a \in DOMAIN D.nonces <=> Differs(c.nonce_writes, c.nonce_initial_values, a)
                  /\ a \in DOMAIN D.nonces => D.nonces[a] = c.nonce_writes[a]
                  /\ a \in DOMAIN D.deployed_contracts <=>
                        Differs(c.class_hash_writes, c.class_hash_initial_values, a)
                  /\ a \in DOMAIN D.deployed_contracts =>
                        D.deployed_contracts[a] = c.class_hash_writes[a]
            /\ d.declared_classes = <<>>

\* a state diff that lists a cell the cache has read and then written with
\* another value
C11_Witness ==
    /\ last.op = "to_state_diff"
    /\ \E x \in ContractStorageKey :
          /\ x \in DOMAIN layers[Top].storage_initial_values
          /\ x \in DOMAIN layers[Top].storage_writes
          /\ layers[Top].storage_writes[x] # layers[Top].storage_initial_values[x]
          /\ InStorageDiffs(StateDiffAsMaps(last.res.val), x)

----------------------------------------------------------------------------
(* C12 *)

\* C12 as claimed: for every cache of the chain, a storage cell, nonce or
\* class-hash binding is in its state diff if and only if the value the cache
\* reads for it differs from the value its reader holds for it.
C12_DiffMinimalAgainstReader ==
    \A i \in 1..Len(layers) :
        LET D == DiffOf(layers[i])
        IN  /\ \A x \in ContractStorageKey :
                  InStorageDiffs(D, x) <=> ReadStorage(layers, i, x) # ReadStorage(layers, i - 1, x)
            /\ \A a \in ContractAddress :
                  /\ a \in DOMAIN D.nonces <=> ReadNonce(layers, i, a) # ReadNonce(layers, i - 1, a)
                  /\ a \in DOMAIN D.deployed_contracts <=>
                        ReadClassHash(layers, i, a) # ReadClassHash(layers, i - 1, a)

\* C12 (amended): every recorded initial value is the value the cache's
\* reader holds; an entry whose initial value the cache has recorded is in
\* the state diff if and only if its final value differs from the reader's;
\* an entry with no recorded initial value is in the state diff if and only
\* if it was written, whatever its value; and every entry whose final value
\* differs from the reader's is in the state diff.
C12_DiffMinimalAgainstInitials ==
    \A i \in 1..Len(layers) :
        LET c == layers[i]
            D == DiffOf(c)
        IN  /\ \A x \in ContractStorageKey :
                  LET in == InStorageDiffs(D, x)
                      changed == ReadStorage(layers, i, x) # ReadStorage(layers, i - 1, x)
                  IN  IF x \in DOMAIN c.storage_initial_values
                      THEN /\ c.storage_initial_values[x] = ReadStorage(layers, i - 1, x)
                           /\ in <=> changed
                      ELSE /\ in <=> x \in DOMAIN c.storage_writes
                           /\ changed => in
            /\ \A a \in ContractAddress :
                  LET in == a \in DOMAIN D.nonces
                      changed == ReadNonce(layers, i, a) # ReadNonce(layers, i - 1, a)
                  IN  IF a \in DOMAIN c.nonce_initial_values
                      THEN /\ c.nonce_initial_values[a] = ReadNonce(layers, i - 1, a)
                           /\ in <=> changed
                      ELSE /\ in <=> a \in DOMAIN c.nonce_writes
                           /\ changed => in
            /\ \A a \in ContractAddress :
                  LET in == a \in DOMAIN D.deployed_contracts
                      changed == ReadClassHash(layers, i, a) # ReadClassHash(layers, i - 1, a)
                  IN  IF a \in DOMAIN c.class_hash_initial_values
                      THEN /\ c.class_hash_initial_values[a] = ReadClassHash(layers, i - 1, a)
                           /\ in <=> changed
                      ELSE /\ in <=> a \in DOMAIN c.class_hash_writes
                           /\ changed => in

\* a cache that has written a cell back to the value it had read for it
\* (left out of the diff) and has written another cell, never read, with the
\* value its reader holds (in the diff)
C12_Witness ==
    \E x, y \in ContractStorageKey :
        LET c == layers[Top]
        IN  /\ x \in DOMAIN c.storage_initial_values /\ x \in DOMAIN c.storage_writes
            /\ c.storage_writes[x] = c.storage_initial_values[x]
            /\ ~InStorageDiffs(DiffOf(c), x)
            /\ y \notin DOMAIN c.storage_initial_values /\ y \in DOMAIN c.storage_writes
            /\ c.storage_writes[y] = ReadStorage(layers, Top - 1, y)
            /\ InStorageDiffs(DiffOf(c), y)

----------------------------------------------------------------------------
(* C13 *)

\* C13: the state diff a to_state_diff call returns is the only one the call
\* can return for the cache: any run that has applied the same operations
\* gets the entries of deployed_contracts, storage_diffs (addresses, and
\* keys of an address) and nonces in the same order.
C13_DiffOrderDeterministic ==
    last.op = "to_state_diff" => \A d \in StateDiffs(layers[Top]) : d = last.res.val

----------------------------------------------------------------------------
(* C14 *)

\* an empty cache with the initial values of cache c
EmptyWithInitialsOf(c) ==
    [NewCachedState EXCEPT
        !.nonce_initial_values = c.nonce_initial_values,
        !.class_hash_initial_values = c.class_hash_initial_values,
        !.storage_initial_values = c.storage_initial_values]

\* C14: the state diff of the top cache C, applied (as commit applies a
\* state diff) to an empty cache with the initial values of C, gives a cache
\* whose state diff equals that of C.
C14_DiffRoundTrip ==
    LET C == layers[Top]
        chain == Front(layers) \o <<EmptyWithInitialsOf(C), C>>
    IN  \A order \in Orders(DOMAIN get_state_diff(C).class_hash_writes) :
            LET r == commit(chain, order, TRUE)
            IN  /\ r.res.ok
                /\ \A d \in StateDiffs(r.layers[Top]), e \in StateDiffs(C) : StateDiffEq(d, e)

----------------------------------------------------------------------------
(* System calls (execution/syscalls.rs).  A call frame is run by a         *)
(* SyscallHintProcessor; the handlers below are applied to the handler of   *)
(* the running (innermost) frame and to the top layer of the cache chain.   *)

EventContent == {"E0", "E1"}
MessageToL1 == {"M0", "M1"}
EntryPointType == {"Constructor", "External", "L1Handler"}

\* the running frame
Cur == Len(frames)

\* Option: None, Some(v)
None == <<>>
Some(v) == <<v>>

\* the syscall handler of a frame entered with call entry point `call`;
\* `via` names the syscall that made the call ("execute" for the outermost)
NewSyscallHintProcessor(call, via) ==
    [storage_address |-> call.storage_address,
     caller_address |-> call.caller_address,
     call |-> call,
     via |-> via,
     events |-> <<>>,
     n_emitted_events |-> 0,
     l2_to_l1_messages |-> <<>>,
     n_sent_messages_to_l1 |-> 0,
     inner_calls |-> <<>>]

\* faulty variant: the event counter is left as it is
emit_event_keeps_counter(syscall_handler, content) ==
    [syscall_handler EXCEPT
        !.events = Append(@, [order |-> syscall_handler.n_emitted_events, event |-> content])]
\* faulty variant: every event gets the order 0
emit_event_order_zero(syscall_handler, content) ==
    [syscall_handler EXCEPT
        !.events = Append(@, [order |-> 0, event |-> content]),
        !.n_emitted_events = @ + 1]
\* emit_event
emit_event(syscall_handler, content) ==
    [syscall_handler EXCEPT
        !.events = Append(@, [order |-> syscall_handler.n_emitted_events, event |-> content]),
        !.n_emitted_events = @ + 1]
\* send_message_to_l1
send_message_to_l1(syscall_handler, message) ==
    [syscall_handler EXCEPT
        !.l2_to_l1_messages =
            Append(@, [order |-> syscall_handler.n_sent_messages_to_l1, message |-> message]),
        !.n_sent_messages_to_l1 = @ + 1]

\* SyscallHintProcessor::get_contract_storage_at / set_contract_storage_at:
\* the cell of the frame's own storage address, in the frame's cache
get_contract_storage_at(ls, syscall_handler, key, readerOk) ==
    get_storage_at(ls, Len(ls), syscall_handler.storage_address, key, readerOk)
set_contract_storage_at(ls, syscall_handler, key, value) ==
    set_storage_at(ls, Len(ls), syscall_handler.storage_address, key, value)

\* storage_read
storage_read(ls, syscall_handler, address, readerOk) ==
    get_contract_storage_at(ls, syscall_handler, address, readerOk)
\* faulty variant: the write is made without the read before it
storage_write_unread(ls, syscall_handler, address, value, readerOk) ==
    set_contract_storage_at(ls, syscall_handler, address, value)
\* storage_write: the read (`?` returns its error), then the write
storage_write(ls, syscall_handler, address, value, readerOk) ==
    LET r == get_contract_storage_at(ls, syscall_handler, address, readerOk)
        w == set_contract_storage_at(r.layers, syscall_handler, address, value)
    IN  IF ~r.res.ok THEN r ELSE Outcome(w.layers, w.res, r.q \cup w.q)

\* the outermost call: any storage and caller address
RootCalls ==
    [class_hash : {None}, entry_point_type : {"External"},
     storage_address : ContractAddress, caller_address : ContractAddress]

\* a transaction's outermost frame, on a reader with a contract or none at
\* address 1
InitFrames ==
    /\ reader \in Readers
    /\ reader.storage = AddressStorage
    /\ reader.nonce = NoNonces
    /\ reader.class_hash[1] \in {0, 1}
    /\ InitCache
    /\ \E call \in RootCalls : frames = <<NewSyscallHintProcessor(call, "execute")>>

\* at most n system calls in a behaviour
Syscalls(n, A) == nops < n /\ Cur >= 1 /\ A /\ nops' = nops + 1

EmitEvent ==
    \E content \in EventContent :
        /\ Apply("emit_event", <<content>>, Outcome(layers, Ok(Unit), {}))
        /\ frames' = [frames EXCEPT ![Cur] = emit_event(@, content)]
        /\ UNCHANGED <<binds, written>>

SendMessageToL1 ==
    \E message \in MessageToL1 :
        /\ Apply("send_message_to_l1", <<message>>, Outcome(layers, Ok(Unit), {}))
        /\ frames' = [frames EXCEPT ![Cur] = send_message_to_l1(@, message)]
        /\ UNCHANGED <<binds, written>>

StorageRead ==
    \E address \in StorageKey, readerOk \in BOOLEAN :
        /\ Apply("storage_read", <<address>>, storage_read(layers, frames[Cur], address, readerOk))
        /\ UNCHANGED <<binds, written, frames>>

StorageWrite ==
    \E address \in StorageKey, value \in StarkFelt, readerOk \in BOOLEAN :
        LET r == storage_write(layers, frames[Cur], address, value, readerOk)
        IN  /\ Apply("storage_write", <<address, value>>, r)
            /\ written' = IF r.res.ok
                          THEN [written EXCEPT ![Top] =
                                   Insert(@, <<frames[Cur].storage_address, address>>, value)]
                          ELSE written
            /\ UNCHANGED <<binds, frames>>

\* one frame: events, messages and storage writes
NextEvents ==
    \/ Syscalls(MaxEventOps, EmitEvent)
    \/ Syscalls(MaxEventOps, SendMessageToL1)
    \/ Syscalls(MaxEventOps, StorageWrite)

SpecEvents == InitFrames /\ [][NextEvents]_vars

----------------------------------------------------------------------------
(* C15 *)

\* the entries of a log carry the orders 0, 1, ..., n - 1 and the counter is n
GapFree(log, counter) ==
    /\ counter = Len(log)
    /\ \A j \in 1..Len(log) : log[j].order = j - 1

\* C15: in a frame, every EmitEvent appends its event to the event log and
\* every SendMessageToL1 its message to the message log, so that the orders
\* of each log are 0, 1, ..., n - 1 in emission order and its counter is n;
\* EmitEvent leaves the message log and counter as they are, SendMessageToL1
\* the event log and counter, and neither changes the state cache.
C15_FrameLogsGapFree ==
    [][LET h == frames[Cur]
           g == frames'[Cur]
       IN  /\ \A i \in 1..Len(frames') :
                 /\ GapFree(frames'[i].events, frames'[i].n_emitted_events)
                 /\ GapFree(frames'[i].l2_to_l1_messages, frames'[i].n_sent_messages_to_l1)
           /\ last'.op = "emit_event" =>
                 /\ g.events = Append(h.events, [order |-> Len(h.events), event |-> last'.args[1]])
                 /\ g.l2_to_l1_messages = h.l2_to_l1_messages
                 /\ g.n_sent_messages_to_l1 = h.n_sent_messages_to_l1
                 /\ layers' = layers
           /\ last'.op = "send_message_to_l1" =>
                 /\ g.l2_to_l1_messages =
                        Append(h.l2_to_l1_messages,
                               [order |-> Len(h.l2_to_l1_messages), message |-> last'.args[1]])
                 /\ g.events = h.events
                 /\ g.n_emitted_events = h.n_emitted_events
                 /\ layers' = layers]_vars

\* a frame that has written a cell, sent a message and emitted its second
\* event
C15_Witness ==
    /\ Len(frames) = 1
    /\ layers[1].storage_writes # EmptyMap
    /\ Len(frames[1].events) = 2
    /\ Len(frames[1].l2_to_l1_messages) = 1
    /\ last.op = "emit_event"

----------------------------------------------------------------------------
(* Inner calls.  A call syscall builds the entry point of the nested call   *)
(* and hands it to the inner call orchestrator (execute_inner_call,         *)
(* execute_library_call), which opens a child cache and a child handler,    *)
(* runs the nested code (its system calls are steps of the nested frame)    *)
(* and, when it returns, merges the child into the parent or aborts it.     *)

\* faulty variant: the nested frame gets the caller of the calling frame
call_contract_keeps_caller(syscall_handler, contract_address) ==
    [class_hash |-> None,
     entry_point_type |-> "External",
     storage_address |-> contract_address,
     caller_address |-> syscall_handler.caller_address]
\* call_contract: the entry point handed to execute_inner_call
call_contract(syscall_handler, contract_address) ==
    [class_hash |-> None,
     entry_point_type |-> "External",
     storage_address |-> contract_address,
     caller_address |-> syscall_handler.storage_address]

\* execute_inner_call up to the start of the nested code: the child cache,
\* and the class hash of the code (the one given, else the one bound at the
\* storage address, read through the child); a failed read aborts the child
execute_inner_call(ls, entry_point, readerOk) ==
    LET child == Append(ls, NewCachedState)
        r == IF entry_point.class_hash = None
             THEN get_class_hash_at(child, Len(child), entry_point.storage_address, readerOk)
             ELSE Outcome(child, Ok(entry_point.class_hash[1]), {})
    IN  IF r.res.ok THEN r ELSE Outcome(abort(r.layers), r.res, r.q)

\* the events and the messages of a returned child appended to the parent's
\* logs, in their order, each numbered by the parent's counter
RECURSIVE append_events(_, _)
append_events(syscall_handler, events) ==
    IF events = <<>> THEN syscall_handler
    ELSE append_events(emit_event(syscall_handler, Head(events).event), Tail(events))
RECURSIVE append_messages(_, _)
append_messages(syscall_handler, messages) ==
    IF messages = <<>> THEN syscall_handler
    ELSE append_messages(send_message_to_l1(syscall_handler, Head(messages).message),
                         Tail(messages))
\* the call info of a returned frame
CallInfo(child) ==
    [call |-> child.call, events |-> child.events,
     l2_to_l1_messages |-> child.l2_to_l1_messages, inner_calls |-> child.inner_calls]
\* execute_inner_call when the nested code has returned: the parent handler
finish_inner_call(parent, child) ==
    [append_messages(append_events(parent, child.events), child.l2_to_l1_messages) EXCEPT
        !.inner_calls = Append(@, CallInfo(child))]

\* a call syscall `op` of the running frame whose handler, having brought
\* the chain to ls0 with reader queries q0, calls the orchestrator with
\* entry_point
EnterCall(op, args, ls0, q0, entry_point, readerOk) ==
    LET r == execute_inner_call(ls0, entry_point, readerOk)
    IN  /\ ~panicked
        /\ Top < MaxDepth
        /\ layers' = r.layers
        /\ panicked' = IsPanic(r.res)
        /\ last' = Record(op, args, IF r.res.ok THEN Ok("entered") ELSE r.res, q0 \cup r.q,
                          "none", "none")
        /\ IF r.res.ok
           THEN /\ frames' = Append(frames, NewSyscallHintProcessor(entry_point, op))
                /\ snap' = Append(snap, ls0[Top])
                /\ binds' = Append(binds, NoBinds)
                /\ written' = Append(written, EmptyMap)
           ELSE UNCHANGED <<frames, snap, binds, written>>
        /\ UNCHANGED reader

CallContract ==
    \E contract_address \in ContractAddress, readerOk \in BOOLEAN :
        EnterCall("call_contract", <<contract_address>>, layers, {},
                  call_contract(frames[Cur], contract_address), readerOk)

\* the nested code returns: the child cache is merged into the parent, the
\* child's logs are appended to the parent's (a constructor's return is
\* handled by the deployment)
InnerCallReturns ==
    /\ ~panicked
    /\ Cur >= 2
    /\ frames[Cur].via # "deploy"
    /\ layers' = [Front(layers) EXCEPT ![Top - 1] = merge(@, layers[Top])]
    /\ frames' = [Front(frames) EXCEPT ![Cur - 1] = finish_inner_call(@, frames[Cur])]
    /\ snap' = Front(snap)
    /\ binds' = JoinBinds
    /\ written' = JoinWritten
    /\ last' = Record("inner_call_returns", <<>>, Ok(Unit), {}, layers[Top], snap[Top - 1])
    /\ UNCHANGED <<reader, panicked>>

\* the nested code fails: the child cache is aborted, its logs are dropped
\* and the error is returned by the call syscall of the parent
InnerCallFails ==
    /\ ~panicked
    /\ Cur >= 2
    /\ layers' = abort(layers)
    /\ frames' = Front(frames)
    /\ snap' = Front(snap)
    /\ binds' = Front(binds)
    /\ written' = Front(written)
    /\ last' = Record("inner_call_fails", <<>>, Err("ExecutionError"), {}, layers[Top],
                      snap[Top - 1])
    /\ UNCHANGED <<reader, panicked>>

\* the outermost frame of a call of contract 1 by account 0
InitLogs ==
    /\ InitFrames
    /\ reader.class_hash[1] = 1
    /\ frames[1].storage_address = 1
    /\ frames[1].caller_address = 0

\* events and messages across inner calls
NextLogs ==
    \/ Syscalls(MaxLogOps, EmitEvent)
    \/ Syscalls(MaxLogOps, SendMessageToL1)
    \/ Syscalls(MaxLogOps, CallContract)
    \/ Syscalls(MaxLogOps, InnerCallReturns)
    \/ Syscalls(MaxLogOps, InnerCallFails)

SpecLogs == InitLogs /\ [][NextLogs]_vars

----------------------------------------------------------------------------
(* C16 *)

\* the events (the messages) of a log, without their orders
Contents(log) == [j \in DOMAIN log |-> IF "event" \in DOMAIN log[j] THEN log[j].event
                                                                     ELSE log[j].message]
IsPrefix(s, t) == Len(s) <= Len(t) /\ SubSeq(t, 1, Len(s)) = s

\* C16: when an inner call returns, the parent's event log is the log it had
\* followed by the child's events in the child's order, and the parent's
\* counter has advanced by their number; whatever the parent has emitted
\* before stays at the head of its log and whatever it emits afterwards goes
\* to the tail, and the order of every entry is its index; the same for the
\* messages.
C16_LogsAcrossInnerCall ==
    [][/\ \A i \in 1..Len(frames') :
              /\ GapFree(frames'[i].events, frames'[i].n_emitted_events)
              /\ GapFree(frames'[i].l2_to_l1_messages, frames'[i].n_sent_messages_to_l1)
              /\ i <= Len(frames) =>
                    /\ IsPrefix(frames[i].events, frames'[i].events)
                    /\ IsPrefix(frames[i].l2_to_l1_messages, frames'[i].l2_to_l1_messages)
       /\ last'.op = "inner_call_returns" =>
              LET parent == frames[Cur - 1]
                  child == frames[Cur]
                  after == frames'[Cur - 1]
              IN  /\ Contents(after.events) = Contents(parent.events) \o Contents(child.events)
                  /\ after.n_emitted_events = parent.n_emitted_events + Len(child.events)
                  /\ Contents(after.l2_to_l1_messages) =
                         Contents(parent.l2_to_l1_messages) \o Contents(child.l2_to_l1_messages)
                  /\ after.n_sent_messages_to_l1 =
                         parent.n_sent_messages_to_l1 + Len(child.l2_to_l1_messages)]_vars

\* the outermost frame has emitted E0, called a contract that emitted E1, E1
\* and returned, and has emitted E0: its log is E0, E1, E1, E0
C16_Witness ==
    /\ Len(frames) = 1
    /\ Len(frames[1].inner_calls) = 1
    /\ Contents(frames[1].inner_calls[1].events) = <<"E1", "E1">>
    /\ Contents(frames[1].events) = <<"E0", "E1", "E1", "E0">>
    /\ last.op = "emit_event"

----------------------------------------------------------------------------
(* Selector decoding: TryFrom<StarkFelt> for SyscallSelector.  A raw        *)
(* selector is the 32 big-endian bytes of a field element.                  *)

SyscallSelector ==
    {"CallContract", "DelegateCall", "DelegateL1Handler", "Deploy",
     "EmitEvent", "GetBlockNumber", "GetBlockTimestamp", "GetCallerAddress",
     "GetContractAddress", "GetSequencerAddress", "GetTxInfo",
     "GetTxSignature", "LibraryCall", "LibraryCallL1Handler",
     "SendMessageToL1", "StorageRead", "StorageWrite"}

\* the arms of the match, in their order: the ASCII bytes of the tag and the
\* selector
SelectorArms == <<
    \* b"CallContract"
    <<<<67, 97, 108, 108, 67, 111, 110, 116, 114, 97, 99, 116>>,
      "CallContract">>,
    \* b"DelegateCall"
    <<<<68, 101, 108, 101, 103, 97, 116, 101, 67, 97, 108, 108>>,
      "DelegateCall">>,
    \* b"DelegateL1Handler"
    <<<<68, 101, 108, 101, 103, 97, 116, 101, 76, 49, 72, 97, 110, 100, 108, 101, 114>>,
      "DelegateL1Handler">>,
    \* b"Deploy"
    <<<<68, 101, 112, 108, 111, 121>>,
      "Deploy">>,
    \* b"EmitEvent"
    <<<<69, 109, 105, 116, 69, 118, 101, 110, 116>>,
      "EmitEvent">>,
    \* b"GetBlockNumber"
    <<<<71, 101, 116, 66, 108, 111, 99, 107, 78, 117, 109, 98, 101, 114>>,
      "GetBlockNumber">>,
    \* b"GetBlockTimestamp"
    <<<<71, 101, 116, 66, 108, 111, 99, 107, 84, 105, 109, 101, 115, 116, 97, 109, 112>>,
      "GetBlockTimestamp">>,
    \* b"GetCallerAddress"
    <<<<71, 101, 116, 67, 97, 108, 108, 101, 114, 65, 100, 100, 114, 101, 115, 115>>,
      "GetCallerAddress">>,
    \* b"GetContractAddress"
    <<<<71, 101, 116, 67, 111, 110, 116, 114, 97, 99, 116, 65, 100, 100, 114, 101, 115, 115>>,
      "GetContractAddress">>,
    \* b"GetSequencerAddress"
    <<<<71, 101, 116, 83, 101, 113, 117, 101, 110, 99, 101, 114, 65, 100, 100, 114, 101, 115, 115>>,
      "GetSequencerAddress">>,
    \* b"GetTxInfo"
    <<<<71, 101, 116, 84, 120, 73, 110, 102, 111>>,
      "GetTxInfo">>,
    \* b"GetTxSignature"
    <<<<71, 101, 116, 84, 120, 83, 105, 103, 110, 97, 116, 117, 114, 101>>,
      "GetTxSignature">>,
    \* b"LibraryCall"
    <<<<76, 105, 98, 114, 97, 114, 121, 67, 97, 108, 108>>,
      "LibraryCall">>,
    \* b"LibraryCallL1Handler"
    <<<<76, 105, 98, 114, 97, 114, 121, 67, 97, 108, 108, 76, 49, 72, 97, 110, 100, 108, 101, 114>>,
      "LibraryCallL1Handler">>,
    \* b"SendMessageToL1"
    <<<<83, 101, 110, 100, 77, 101, 115, 115, 97, 103, 101, 84, 111, 76, 49>>,
      "SendMessageToL1">>,
    \* b"StorageRead"
    <<<<83, 116, 111, 114, 97, 103, 101, 82, 101, 97, 100>>,
      "StorageRead">>,
    \* b"StorageWrite"
    <<<<83, 116, 111, 114, 97, 103, 101, 87, 114, 105, 116, 101>>,
      "StorageWrite">> >>

\* the ASCII tag of a selector
Tag(X) == SelectorArms[CHOOSE j \in DOMAIN SelectorArms : SelectorArms[j][2] = X][1]

\* selector_bytes.iter().position(|&byte| byte != b'\0').unwrap_or(32), as
\* an index from 1
first_non_zero(selector_bytes) ==
    IF \E j \in DOMAIN selector_bytes : selector_bytes[j] # 0
    THEN CHOOSE j \in DOMAIN selector_bytes :
             /\ selector_bytes[j] # 0
             /\ \A i \in 1..(j - 1) : selector_bytes[i] = 0
    ELSE FeltBytes + 1

\* the first arm of the match with pattern bytes, 0 if there is none
RECURSIVE MatchArm(_, _)
MatchArm(bytes, j) ==
    IF j > Len(SelectorArms) THEN 0
    ELSE IF bytes = SelectorArms[j][1] THEN j
    ELSE MatchArm(bytes, j + 1)
\* the first arm whose tag the bytes start with, 0 if there is none
RECURSIVE MatchArmPrefix(_, _)
MatchArmPrefix(bytes, j) ==
    IF j > Len(SelectorArms) THEN 0
    ELSE IF /\ Len(SelectorArms[j][1]) <= Len(bytes)
            /\ SubSeq(bytes, 1, Len(SelectorArms[j][1])) = SelectorArms[j][1] THEN j
    ELSE MatchArmPrefix(bytes, j + 1)

\* faulty variant: a selector is accepted when its bytes start with a tag
SyscallSelector_try_from_prefix(raw_selector) ==
    LET selector_bytes == raw_selector
        arm == MatchArmPrefix(SubSeq(selector_bytes, first_non_zero(selector_bytes), FeltBytes), 1)
    IN  IF arm # 0 THEN Ok(SelectorArms[arm][2])
        ELSE ErrAt("InvalidSyscallSelector", raw_selector)
\* SyscallSelector::try_from
SyscallSelector_try_from(raw_selector) ==
    LET selector_bytes == raw_selector
        arm == MatchArm(SubSeq(selector_bytes, first_non_zero(selector_bytes), FeltBytes), 1)
    IN  IF arm # 0 THEN Ok(SelectorArms[arm][2])
        ELSE ErrAt("InvalidSyscallSelector", raw_selector)

\* StarkFelt::bytes of the field element that holds `bytes` in its low bytes
Pad(bytes) ==
    [j \in 1..FeltBytes |->
        IF j <= FeltBytes - Len(bytes) THEN 0 ELSE bytes[j - (FeltBytes - Len(bytes))]]
\* the other case of an ASCII letter
SwapCase(b) ==
    IF b \in 65..90 THEN b + 32 ELSE IF b \in 97..122 THEN b - 32 ELSE b
\* a tag and what is near it: its first letter or all its letters in the
\* other case, the tag less its last byte, with a byte more ('X') after or
\* before it, followed by a zero byte, with a zero byte inside
Near(tag) ==
    {tag,
     [tag EXCEPT ![1] = SwapCase(@)],
     [j \in DOMAIN tag |-> SwapCase(tag[j])],
     SubSeq(tag, 1, Len(tag) - 1),
     Append(tag, 88),
     <<88>> \o tag,
     Append(tag, 0),
     [tag EXCEPT ![2] = 0]}
\* the raw selectors decoded: what is near a tag, the zero element, 'X' and
\* 32 bytes 'X'
RawSelectors ==
    {Pad(bytes) : bytes \in UNION {Near(Tag(X)) : X \in SyscallSelector}}
        \cup {Pad(<<>>), Pad(<<88>>), [j \in 1..FeltBytes |-> 88]}

\* the VM hands a raw selector to the dispatcher
InitSelector ==
    /\ reader \in Readers
    /\ reader.storage = AddressStorage
    /\ reader.nonce = NoNonces
    /\ reader.class_hash = NoContracts
    /\ layers = <<NewCachedState>>
    /\ snap = <<>>
    /\ binds = <<NoBinds>>
    /\ written = <<EmptyMap>>
    /\ panicked = FALSE
    /\ nops = 0
    /\ frames = <<>>
    /\ \E raw_selector \in RawSelectors :
           last = Record("selector", <<raw_selector>>, Ok(Unit), {}, "none", "none")

DecodeSelector ==
    /\ last.op = "selector"
    /\ Apply("try_from", last.args, Outcome(layers, SyscallSelector_try_from(last.args[1]), {}))
    /\ nops' = nops + 1
    /\ UNCHANGED <<binds, written, frames>>

NextSelector == DecodeSelector

SpecSelector == InitSelector /\ [][NextSelector]_vars

----------------------------------------------------------------------------
(* C17 *)

\* the bytes left when the leading zero bytes are removed
RECURSIVE StripZeros(_)
StripZeros(bytes) ==
    IF bytes = <<>> THEN <<>>
    ELSE IF Head(bytes) = 0 THEN StripZeros(Tail(bytes))
    ELSE bytes

\* C17: try_from returns selector X if and only if the bytes of the raw
\* selector, less its leading zero bytes, are the ASCII tag of X, byte for
\* byte and in full; the 17 tags are distinct; every other raw selector
\* fails with InvalidSyscallSelector carrying the raw selector unchanged.
C17_SelectorDecodingExact ==
    last.op = "try_from" =>
        LET raw == last.args[1]
            rest == StripZeros(raw)
        IN  /\ Cardinality(SyscallSelector) = 17
            /\ Len(SelectorArms) = 17
            /\ \A X, Y \in SyscallSelector : Tag(X) = Tag(Y) => X = Y
            /\ \A X \in SyscallSelector : (last.res.ok /\ last.res.val = X) <=> rest = Tag(X)
            /\ IF \E X \in SyscallSelector : rest = Tag(X)
               THEN last.res.ok
               ELSE /\ ~last.res.ok
                    /\ last.res.err = "InvalidSyscallSelector"
                    /\ last.res.at = raw

\* StorageRead, left-padded with zero bytes, has decoded to StorageRead
C17_Witness ==
    /\ last.op = "try_from"
    /\ last.args[1] = Pad(Tag("StorageRead"))
    /\ last.res.ok
    /\ last.res.val = "StorageRead"

----------------------------------------------------------------------------
(* Storage system calls, in nested frames, on a cache that is also written  *)
(* through the State interface.                                             *)

NextStorageCalls ==
    \/ Syscalls(MaxStorageCallOps, StorageRead)
    \/ Syscalls(MaxStorageCallOps, StorageWrite)
    \/ Syscalls(MaxStorageCallOps, CallContract)
    \/ Syscalls(MaxStorageCallOps, InnerCallReturns)
    \/ Syscalls(MaxStorageCallOps, InnerCallFails)
    \/ Budget(MaxStorageCallOps, SetStorageAt)

SpecStorageCalls == InitLogs /\ [][NextStorageCalls]_vars

----------------------------------------------------------------------------
(* C18 *)

\* C18 as claimed: a successful StorageWrite(k, v) in a frame with storage
\* address s leaves the cache with a recorded pre-image of (s, k) (an
\* initial value, or an earlier write) and the state diff omits (s, k) when
\* v equals the value (s, k) had before the write; a StorageWrite whose read
\* fails returns the error and writes nothing.
C18_WriteReadsPreImage ==
    [][last'.op = "storage_write" =>
          LET x == <<frames[Cur].storage_address, last'.args[1]>>
              v == last'.args[2]
              c == layers[Top]
              d == layers'[Top]
          IN  IF last'.res.ok
              THEN /\ x \in DOMAIN d.storage_initial_values \/ x \in DOMAIN c.storage_writes
                   /\ d.storage_writes[x] = v
                   /\ v = ReadStorage(layers, Top, x) => ~InStorageDiffs(DiffOf(d), x)
              ELSE /\ last'.res.err = "StateReadError"
                   /\ layers' = layers]_vars

\* C18 (amended): StorageWrite(k, v) in a frame with storage address s reads
\* (s, k) before it writes: on a cell the frame's cache has neither read nor
\* written the read records the value of the cache's reader as the initial
\* value of (s, k), on any other cell it records nothing; a successful
\* StorageWrite writes v, and the state diff omits (s, k) if and only if an
\* initial value is recorded for (s, k) and v equals it; a StorageWrite
\* whose read fails returns the error and changes nothing.
C18_WriteReadsInitialValue ==
    [][last'.op = "storage_write" =>
          LET x == <<frames[Cur].storage_address, last'.args[1]>>
              v == last'.args[2]
              c == layers[Top]
              d == layers'[Top]
          IN  IF last'.res.ok
              THEN /\ IF x \in DOMAIN c.storage_writes \/ x \in DOMAIN c.storage_initial_values
                      THEN d.storage_initial_values = c.storage_initial_values
                      ELSE d.storage_initial_values =
                               Insert(c.storage_initial_values, x, ReadStorage(layers, Top - 1, x))
                   /\ d.storage_writes = Insert(c.storage_writes, x, v)
                   /\ ~InStorageDiffs(DiffOf(d), x) <=>
                          /\ x \in DOMAIN d.storage_initial_values
                          /\ d.storage_initial_values[x] = v
              ELSE /\ last'.res.err = "StateReadError"
                   /\ layers' = layers]_vars

\* a StorageWrite on a cell not touched before has recorded the initial
\* value and written the same value: the cell is not in the state diff
C18_Witness ==
    /\ last.op = "storage_write"
    /\ last.res.ok
    /\ last.q # {}
    /\ LET x == <<frames[Cur].storage_address, last.args[1]>>
           d == layers[Top]
       IN  /\ x \in DOMAIN d.storage_initial_values
           /\ d.storage_initial_values[x] = last.args[2]
           /\ d.storage_writes[x] = last.args[2]
           /\ ~InStorageDiffs(DiffOf(d), x)

----------------------------------------------------------------------------
(* The call system calls and the address system calls.                      *)

\* get_contract_address, get_caller_address
get_contract_address(syscall_handler) == Ok(syscall_handler.storage_address)
get_caller_address(syscall_handler) == Ok(syscall_handler.caller_address)

\* execute_library_call: the entry point it hands to execute_inner_call, the
\* code of class_hash run on the storage and for the caller of the calling
\* frame
execute_library_call(syscall_handler, class_hash, call_to_external) ==
    [class_hash |-> Some(class_hash),
     entry_point_type |-> IF call_to_external THEN "External" ELSE "L1Handler",
     storage_address |-> syscall_handler.storage_address,
     caller_address |-> syscall_handler.caller_address]

\* library_call, library_call_l1_handler
library_call(syscall_handler, class_hash) ==
    execute_library_call(syscall_handler, class_hash, TRUE)
library_call_l1_handler(syscall_handler, class_hash) ==
    execute_library_call(syscall_handler, class_hash, FALSE)

\* faulty variant: the class hash read is that of the calling contract
delegate_call_own_class(ls, syscall_handler, contract_address, readerOk) ==
    LET r == get_class_hash_at(ls, Len(ls), syscall_handler.storage_address, readerOk)
    IN  [read |-> r, entry_point |-> execute_library_call(syscall_handler, r.res.val, TRUE)]
\* delegate_call: the read of the class hash of contract_address in the
\* frame's cache (`?` returns its error), and the entry point of the call
delegate_call(ls, syscall_handler, contract_address, readerOk) ==
    LET r == get_class_hash_at(ls, Len(ls), contract_address, readerOk)
    IN  [read |-> r, entry_point |-> execute_library_call(syscall_handler, r.res.val, TRUE)]
\* faulty variant: the nested call is a call to an external entry point
delegate_l1_handler_external(ls, syscall_handler, contract_address, readerOk) ==
    LET r == get_class_hash_at(ls, Len(ls), contract_address, readerOk)
    IN  [read |-> r, entry_point |-> execute_library_call(syscall_handler, r.res.val, TRUE)]
\* delegate_l1_handler
delegate_l1_handler(ls, syscall_handler, contract_address, readerOk) ==
    LET r == get_class_hash_at(ls, Len(ls), contract_address, readerOk)
    IN  [read |-> r, entry_point |-> execute_library_call(syscall_handler, r.res.val, FALSE)]

GetContractAddress ==
    /\ Apply("get_contract_address", <<>>, Outcome(layers, get_contract_address(frames[Cur]), {}))
    /\ UNCHANGED <<binds, written, frames>>

GetCallerAddress ==
    /\ Apply("get_caller_address", <<>>, Outcome(layers, get_caller_address(frames[Cur]), {}))
    /\ UNCHANGED <<binds, written, frames>>

LibraryCall ==
    \E class_hash \in ClassHash :
        EnterCall("library_call", <<class_hash>>, layers, {},
                  library_call(frames[Cur], class_hash), TRUE)

LibraryCallL1Handler ==
    \E class_hash \in ClassHash :
        EnterCall("library_call_l1_handler", <<class_hash>>, layers, {},
                  library_call_l1_handler(frames[Cur], class_hash), TRUE)

\* a delegate call d of the running frame: the nested call when the class
\* hash has been read, else the error of the read
Delegate(op, contract_address, d) ==
    IF d.read.res.ok
    THEN EnterCall(op, <<contract_address>>, d.read.layers, d.read.q, d.entry_point, TRUE)
    ELSE /\ Top < MaxDepth
         /\ Apply(op, <<contract_address>>, d.read)
         /\ UNCHANGED <<binds, written, frames>>

DelegateCall ==
    \E contract_address \in ContractAddress, readerOk \in BOOLEAN :
        Delegate("delegate_call", contract_address,
                 delegate_call(layers, frames[Cur], contract_address, readerOk))

DelegateL1Handler ==
    \E contract_address \in ContractAddress, readerOk \in BOOLEAN :
        Delegate("delegate_l1_handler", contract_address,
                 delegate_l1_handler(layers, frames[Cur], contract_address, readerOk))

NextCalls ==
    \/ Syscalls(MaxCallOps, StorageRead)
    \/ Syscalls(MaxCallOps, StorageWrite)
    \/ Syscalls(MaxCallOps, GetContractAddress)
    \/ Syscalls(MaxCallOps, GetCallerAddress)
    \/ Syscalls(MaxCallOps, CallContract)
    \/ Syscalls(MaxCallOps, LibraryCall)
    \/ Syscalls(MaxCallOps, LibraryCallL1Handler)
    \/ Syscalls(MaxCallOps, DelegateCall)
    \/ Syscalls(MaxCallOps, DelegateL1Handler)
    \/ Syscalls(MaxCallOps, InnerCallReturns)
    \/ Syscalls(MaxCallOps, InnerCallFails)

SpecCalls == InitLogs /\ [][NextCalls]_vars

----------------------------------------------------------------------------
(* C19, C20 *)

\* the step is a system call made by the running frame, which goes on
InFrame(ops) == last'.op \in ops /\ Len(frames') = Len(frames) /\ nops' # nops

\* the storage cells of contracts other than a are, in every cache of the
\* chain, as they were, and the underlying reader was asked for no cell of
\* theirs
OnlyCellsOf(a) ==
    /\ Len(layers') = Len(layers)
    /\ \A j \in 1..Len(layers), x \in ContractStorageKey :
           x[1] # a =>
               /\ x \in DOMAIN layers'[j].storage_writes <=> x \in DOMAIN layers[j].storage_writes
               /\ x \in DOMAIN layers'[j].storage_initial_values <=>
                      x \in DOMAIN layers[j].storage_initial_values
               /\ ReadStorage(layers', j, x) = ReadStorage(layers, j, x)
    /\ \A q \in last'.q : q[1] = "storage" /\ q[2][1] = a

\* what the storage and address system calls of a nested frame with storage
\* address a and caller address b do: GetContractAddress returns a,
\* GetCallerAddress returns b, StorageRead returns the value of the cell of
\* a, a successful StorageWrite writes the cell of a, and both leave the
\* cells of every other contract alone
ActsAs(a, b) ==
    /\ InFrame({"get_contract_address"}) => last'.res.ok /\ last'.res.val = a
    /\ InFrame({"get_caller_address"}) => last'.res.ok /\ last'.res.val = b
    /\ InFrame({"storage_read", "storage_write"}) => OnlyCellsOf(a)
    /\ InFrame({"storage_read"}) /\ last'.res.ok =>
           last'.res.val = ReadStorage(layers, Top, <<a, last'.args[1]>>)
    /\ InFrame({"storage_write"}) /\ last'.res.ok =>
           ReadStorage(layers', Top, <<a, last'.args[1]>>) = last'.args[2]

\* C19: a CallContract(target) that starts its nested frame, issued by a
\* frame with storage address s, starts it with entry-point type External,
\* no class hash, storage address target and caller address s; in a frame
\* started by CallContract(target) from a frame with storage address s,
\* GetContractAddress returns target, GetCallerAddress returns s, and
\* StorageRead and StorageWrite act on cells of target only.
C19_CallContractFrame ==
    [][/\ last'.op = "call_contract" /\ last'.res.ok =>
              /\ Len(frames') = Len(frames) + 1
              /\ frames'[Cur + 1].via = "call_contract"
              /\ frames'[Cur + 1].call.entry_point_type = "External"
              /\ frames'[Cur + 1].call.class_hash = None
              /\ frames'[Cur + 1].call.storage_address = last'.args[1]
              /\ frames'[Cur + 1].storage_address = last'.args[1]
              /\ frames'[Cur + 1].caller_address = frames[Cur].storage_address
              /\ SubSeq(frames', 1, Cur) = frames
       /\ Cur >= 2 /\ frames[Cur].via = "call_contract" =>
              ActsAs(frames[Cur].call.storage_address, frames[Cur - 1].storage_address)]_vars

\* contract 1, called by account 0, has called contract 0, whose frame has
\* written a cell of contract 0 and then got 1 as its caller address
C19_Witness ==
    /\ Len(frames) = 2
    /\ frames[1].storage_address = 1 /\ frames[1].caller_address = 0
    /\ frames[2].via = "call_contract" /\ frames[2].storage_address = 0
    /\ \E k \in StorageKey : <<0, k>> \in DOMAIN layers[2].storage_writes
    /\ last.op = "get_caller_address" /\ last.res.val = 1

\* the class hash bound at address a, as the running frame's cache reads it
BoundAt(a) == ReadClassHash(layers, Top, a)

\* a DelegateCall or DelegateL1Handler step on target t that has read t's
\* class hash and starts the nested frame with storage address a, caller
\* address b and the entry-point type of the system call
DelegateStarts(a, b) ==
    /\ Len(frames') = Len(frames) + 1
    /\ frames'[Cur + 1].via = last'.op
    /\ frames'[Cur + 1].call.class_hash = Some(BoundAt(last'.args[1]))
    /\ frames'[Cur + 1].call.entry_point_type =
           IF last'.op = "delegate_call" THEN "External" ELSE "L1Handler"
    /\ frames'[Cur + 1].storage_address = a
    /\ frames'[Cur + 1].caller_address = b
    /\ SubSeq(frames', 1, Cur) = frames

Delegates == {"delegate_call", "delegate_l1_handler"}

\* C20 as claimed: a DelegateCall or DelegateL1Handler on target t, issued
\* by a frame with storage address s and caller c, reads t's class hash and
\* starts the nested frame with storage address t and caller address c, and
\* the storage reads and writes of the nested frame act on cells of its
\* storage address.
C20_DelegateRunsOnTarget ==
    [][/\ last'.op \in Delegates /\ last'.res.ok =>
              DelegateStarts(last'.args[1], frames[Cur].caller_address)
       /\ Cur >= 2 /\ frames[Cur].via \in Delegates =>
              ActsAs(frames[Cur].storage_address, frames[Cur].caller_address)]_vars

\* C20 (amended): a DelegateCall or DelegateL1Handler on target t, issued
\* by a frame with storage address s and caller c, reads t's class hash in
\* the frame's cache and runs the code of that class in a nested frame with
\* storage address s and caller address c (entry-point type External for
\* DelegateCall, L1Handler for DelegateL1Handler); in the nested frame
\* GetContractAddress returns s, GetCallerAddress returns c and StorageRead
\* and StorageWrite act on cells of s only; if the read of the class hash
\* fails the error is returned and no nested frame is started.
C20_DelegateRunsOnCaller ==
    [][/\ last'.op \in Delegates /\ last'.res.ok =>
              DelegateStarts(frames[Cur].storage_address, frames[Cur].caller_address)
       /\ last'.op \in Delegates /\ ~last'.res.ok =>
              /\ last'.res.err = "StateReadError"
              /\ frames' = frames
              /\ layers' = layers
       /\ Cur >= 2 /\ frames[Cur].via \in Delegates =>
              /\ frames[Cur].storage_address = frames[Cur - 1].storage_address
              /\ frames[Cur].caller_address = frames[Cur - 1].caller_address
              /\ ActsAs(frames[Cur - 1].storage_address, frames[Cur - 1].caller_address)]_vars

\* contract 1, called by account 0, has made a DelegateCall on contract 0,
\* whose code, run in the nested frame, has written a cell of contract 1
C20_Witness ==
    /\ Len(frames) = 2
    /\ frames[1].storage_address = 1 /\ frames[1].caller_address = 0
    /\ frames[2].via = "delegate_call"
    /\ frames[2].call.class_hash = Some(reader.class_hash[0])
    /\ frames[2].storage_address = 1 /\ frames[2].caller_address = 0
    /\ last.op = "storage_write" /\ last.res.ok
    /\ \E k \in StorageKey : <<1, k>> \in DOMAIN layers[2].storage_writes

----------------------------------------------------------------------------
(* The Deploy system call.  The address calculation and the deployment      *)
(* (calculate_contract_address, execute_deployment) follow the              *)
(* specification of the inner call orchestrator: the constructor runs in a  *)
(* nested frame on a child cache; when it returns without return data the   *)
(* class hash is bound at the new address in that cache, which is then      *)
(* merged into the parent; on any failure the child is aborted.             *)

\* the salts of a deploy request; the address hash takes the salts below
\* SaltRange and rejects the others
ContractAddressSalt == {0, 1, 2}
SaltRange == {0, 1}
Calldata == {<<>>, <<1>>}
DeployRequest ==
    [class_hash : ClassHash,
     contract_address_salt : ContractAddressSalt,
     constructor_calldata : Calldata,
     deploy_from_zero : BOOLEAN]

\* the hash of the constructor calldata
RECURSIVE hash_calldata(_)
hash_calldata(calldata) ==
    IF calldata = <<>> THEN 0 ELSE (hash_calldata(Tail(calldata)) + Head(calldata) + 1) % 2
\* calculate_contract_address: the hash of the deployer, the salt, the class
\* hash and the hash of the calldata, modulo the address bound
calculate_contract_address(salt, class_hash, constructor_calldata, deployer_address) ==
    IF salt \notin SaltRange THEN Err("ContractAddressCalculation")
    ELSE Ok((deployer_address + salt + class_hash + hash_calldata(constructor_calldata))
                % Cardinality(ContractAddress))

\* execute_deployment: the entry point of the constructor, the code of
\* class_hash run on the storage of the new contract for the deployer
execute_deployment(class_hash, deployed_contract_address, deployer_address) ==
    [class_hash |-> Some(class_hash),
     entry_point_type |-> "Constructor",
     storage_address |-> deployed_contract_address,
     caller_address |-> deployer_address]

\* faulty variant: the address is always calculated from the deploying frame
deploy_from_deployer(request, syscall_handler) ==
    LET deployer_address == syscall_handler.storage_address
        deployed_contract_address ==
            calculate_contract_address(request.contract_address_salt, request.class_hash,
                                       request.constructor_calldata, deployer_address)
    IN  [address |-> deployed_contract_address,
         entry_point |-> execute_deployment(request.class_hash, deployed_contract_address.val,
                                            deployer_address)]
\* deploy, up to the call of execute_deployment: the calculated address (`?`
\* returns its error) and the entry point of the constructor
deploy(request, syscall_handler) ==
    LET deployer_address == syscall_handler.storage_address
        deployer_address_for_calculation ==
            IF request.deploy_from_zero THEN 0 ELSE deployer_address
        deployed_contract_address ==
            calculate_contract_address(request.contract_address_salt, request.class_hash,
                                       request.constructor_calldata,
                                       deployer_address_for_calculation)
    IN  [address |-> deployed_contract_address,
         entry_point |-> execute_deployment(request.class_hash, deployed_contract_address.val,
                                            deployer_address)]

\* DeployResponse::write: the address, then a zero size and a zero pointer
\* for the constructor's return data
DeployResponse_write(contract_address) == <<contract_address, 0, 0>>

\* the return data a constructor may give back
Retdata == {<<>>, <<1>>}

\* faulty variant: the return data of the constructor is not looked at
finish_deployment_any_retdata(ls, constructor, retdata, readerOk) ==
    set_class_hash_at(ls, Len(ls), constructor.storage_address,
                      constructor.call.class_hash[1], readerOk)
\* execute_deployment when the constructor has returned: return data is an
\* error; else the class hash is bound at the new address, in the cache of
\* the constructor's frame
finish_deployment(ls, constructor, retdata, readerOk) ==
    IF retdata # <<>> THEN Outcome(ls, Err("InvalidResponse"), {})
    ELSE set_class_hash_at(ls, Len(ls), constructor.storage_address,
                           constructor.call.class_hash[1], readerOk)

Deploy ==
    \E request \in DeployRequest :
        LET d == deploy(request, frames[Cur])
        IN  IF d.address.ok
            THEN EnterCall("deploy", <<request>>, layers, {}, d.entry_point, TRUE)
            ELSE /\ Top < MaxDepth
                 /\ Apply("deploy", <<request>>, Outcome(layers, d.address, {}))
                 /\ UNCHANGED <<binds, written, frames>>

\* the constructor returns: the deployment is finished in the constructor's
\* cache; on success the cache is merged into the parent, the call info is
\* pushed on the deploying frame's inner calls and the response is written,
\* else the cache is aborted and the error is returned by Deploy
ConstructorReturns ==
    \E retdata \in Retdata, readerOk \in BOOLEAN :
        LET constructor == frames[Cur]
            r == finish_deployment(layers, constructor, retdata, readerOk)
            bound == [binds EXCEPT ![Top][constructor.storage_address] =
                         Append(@, constructor.call.class_hash[1])]
        IN  /\ ~panicked
            /\ Cur >= 2
            /\ constructor.via = "deploy"
            /\ panicked' = IsPanic(r.res)
            /\ IF r.res.ok
               THEN /\ layers' = [Front(r.layers) EXCEPT ![Top - 1] = merge(@, r.layers[Top])]
                    /\ frames' = [Front(frames) EXCEPT
                                     ![Cur - 1] = finish_inner_call(@, constructor)]
                    /\ binds' = [Front(bound) EXCEPT ![Top - 1] =
                                    [a \in ContractAddress |-> @[a] \o bound[Top][a]]]
                    /\ written' = JoinWritten
                    /\ last' = Record("deploy_returns", <<retdata>>,
                                      Ok(DeployResponse_write(constructor.storage_address)),
                                      r.q, r.layers[Top], snap[Top - 1])
               ELSE /\ layers' = abort(r.layers)
                    /\ frames' = Front(frames)
                    /\ binds' = Front(binds)
                    /\ written' = Front(written)
                    /\ last' = Record("deploy_fails", <<retdata>>, r.res, r.q, r.layers[Top],
                                      snap[Top - 1])
            /\ snap' = Front(snap)
            /\ UNCHANGED reader

\* the outermost frame of a call by account 0, at either address
InitDeploy == InitFrames /\ frames[1].caller_address = 0

\* deployments, with class hashes also bound through the State interface
NextDeploy ==
    \/ Syscalls(MaxDeployOps, Deploy)
    \/ Syscalls(MaxDeployOps, ConstructorReturns)
    \/ Syscalls(MaxDeployOps, InnerCallFails)
    \/ Budget(MaxDeployOps, SetClassHashAt)

SpecDeploy == InitDeploy /\ [][NextDeploy]_vars

----------------------------------------------------------------------------
(* C21 *)

\* the address of a deploy request made with the deployer d
AddressFor(request, d) ==
    calculate_contract_address(request.contract_address_salt, request.class_hash,
                               request.constructor_calldata, d)

\* C21: a Deploy that starts its constructor, issued by a frame with
\* storage address s, starts it at the address calculated from the salt, the
\* class hash and the calldata of the request and from s, or from the zero
\* address when deploy_from_zero is set, so that with deploy_from_zero set
\* a frame with any other storage address gets the same address; the
\* constructor runs the requested class with caller address s in both
\* cases; and the response of a Deploy that succeeds is (address, 0, 0).
C21_DeployAddress ==
    [][/\ last'.op = "deploy" /\ last'.res.ok =>
              LET request == last'.args[1]
                  s == frames[Cur].storage_address
                  address == AddressFor(request, IF request.deploy_from_zero THEN 0 ELSE s)
              IN  /\ address.ok
                  /\ Len(frames') = Len(frames) + 1
                  /\ frames'[Cur + 1].via = "deploy"
                  /\ frames'[Cur + 1].storage_address = address.val
                  /\ frames'[Cur + 1].caller_address = s
                  /\ frames'[Cur + 1].call.class_hash = Some(request.class_hash)
                  /\ frames'[Cur + 1].call.entry_point_type = "Constructor"
                  /\ request.deploy_from_zero =>
                         \A x \in ContractAddress :
                             deploy(request, [frames[Cur] EXCEPT !.storage_address = x]).address
                                 = address
       /\ last'.op = "deploy_returns" =>
              /\ frames[Cur].via = "deploy"
              /\ last'.res.ok
              /\ last'.res.val = <<frames[Cur].storage_address, 0, 0>>]_vars

\* contract 1 has issued a Deploy with deploy_from_zero set, whose
\* constructor has started, with caller 1, at the address the request gives
\* with the zero address as deployer and not at the one it gives with 1
C21_Witness ==
    /\ last.op = "deploy" /\ last.res.ok
    /\ last.args[1].deploy_from_zero
    /\ Len(frames) = 2
    /\ frames[1].storage_address = 1
    /\ frames[2].caller_address = 1
    /\ frames[2].storage_address = AddressFor(last.args[1], 0).val
    /\ frames[2].storage_address # AddressFor(last.args[1], 1).val

----------------------------------------------------------------------------
(* C22 *)

\* the chain below the running frame's cache, as it was when the running
\* frame was started
Issuing == [Front(layers) EXCEPT ![Top - 1] = snap[Top - 1]]

\* the step ends a Deploy with an error after its constructor has started
DeployFails ==
    /\ Cur >= 2
    /\ frames[Cur].via = "deploy"
    /\ last'.op \in {"deploy_fails", "inner_call_fails"}

\* C22: a Deploy that fails - in the address calculation, in the
\* constructor, on constructor return data or because the address is
\* occupied - leaves the class hash read at every address, and so at the
\* calculated one, as it was when the Deploy was issued, and leaves the
\* issuing frame as it was, its inner-call list included; it fails whenever
\* the constructor returns data or the address reads as occupied; a Deploy
\* that succeeds has bound the class hash of the request at the address,
\* which is nonzero and was unbound, and has appended exactly one call info,
\* that of the constructor, to the inner-call list of the issuing frame.
C22_DeployOnlyOnSuccess ==
    [][/\ last'.op = "deploy" /\ ~last'.res.ok =>
              /\ last'.res.err = "ContractAddressCalculation"
              /\ frames' = frames
              /\ \A a \in ContractAddress :
                     ReadClassHash(layers', Top, a) = ReadClassHash(layers, Top, a)
       /\ DeployFails =>
              /\ ~last'.res.ok
              /\ Len(frames') = Cur - 1
              /\ frames' = Front(frames)
              /\ \A a \in ContractAddress :
                     ReadClassHash(layers', Top - 1, a) = ReadClassHash(Issuing, Top - 1, a)
       /\ Cur >= 2 /\ frames[Cur].via = "deploy" /\ Len(frames') < Cur
                   /\ (last'.args # <<<<>>>>
                       \/ ReadClassHash(layers, Top, frames[Cur].storage_address) # 0) =>
              DeployFails
       /\ last'.op = "deploy_returns" =>
              LET constructor == frames[Cur]
                  a == constructor.storage_address
              IN  /\ a # 0
                  /\ ReadClassHash(Issuing, Top - 1, a) = 0
                  /\ ReadClassHash(layers', Top - 1, a) = constructor.call.class_hash[1]
                  /\ Len(frames') = Cur - 1
                  /\ frames'[Cur - 1].inner_calls =
                         Append(frames[Cur - 1].inner_calls, CallInfo(constructor))
                  /\ CallInfo(constructor).call.storage_address = a
                  /\ SubSeq(frames', 1, Cur - 2) = SubSeq(frames, 1, Cur - 2)]_vars

\* a frame whose first Deploy has succeeded and is on its inner-call list,
\* and whose second Deploy, to the same address, has failed on the occupied
\* address and has left the list and the binding alone
C22_Witness ==
    /\ last.op = "deploy_fails" /\ last.res.err = "UnavailableContractAddress"
    /\ Len(frames) = 1
    /\ Len(frames[1].inner_calls) = 1
    /\ frames[1].inner_calls[1].call.storage_address = last.res.at
    /\ frames[1].inner_calls[1].call.class_hash # Some(0)
    /\ ReadClassHash(layers, Top, last.res.at) = frames[1].inner_calls[1].call.class_hash[1]

----------------------------------------------------------------------------
(* C23 *)

\* the <<address, class hash>> pairs of the Deploys recorded in a list of
\* call infos and in the inner calls of its entries
RECURSIVE DeployedIn(_)
DeployedIn(calls) ==
    UNION {DeployedIn(calls[j].inner_calls)
               \cup (IF calls[j].call.entry_point_type = "Constructor"
                     THEN {<<calls[j].call.storage_address, calls[j].call.class_hash[1]>>}
                     ELSE {})
           : j \in DOMAIN calls}
\* the contracts deployed so far by the running frames and by the frames
\* that have returned to them: address and class hash (the zero class hash
\* means that no code is bound)
Deployed == {d \in UNION {DeployedIn(frames[i].inner_calls) : i \in 1..Cur} : d[2] # 0}

\* C23: once a Deploy has succeeded with address a bound to class hash h,
\* in the running frame or in a frame that has returned to it or to one of
\* its callers, get_class_hash_at(a) returns h without asking the reader,
\* every set_class_hash_at(a, h') fails with UnavailableContractAddress(a),
\* and no Deploy whose constructor runs at a succeeds: when its constructor
\* returns without return data it fails with UnavailableContractAddress(a).
C23_OneContractPerAddress ==
    [][\A d \in Deployed :
           LET a == d[1]
               h == d[2]
           IN  /\ \A readerOk \in BOOLEAN :
                      LET r == get_class_hash_at(layers, Top, a, readerOk)
                      IN  r.res.ok /\ r.res.val = h /\ r.q = {}
               /\ last'.op = "get_class_hash_at" /\ last'.args[1] = a =>
                      last'.res.ok /\ last'.res.val = h
               /\ last'.op = "set_class_hash_at" /\ last'.args[1] = a =>
                      /\ ~last'.res.ok
                      /\ last'.res.err = "UnavailableContractAddress"
                      /\ last'.res.at = a
                      /\ ReadClassHash(layers', Top, a) = h
               /\ Cur >= 2 /\ frames[Cur].via = "deploy" /\ frames[Cur].storage_address = a
                           /\ Len(frames') < Cur =>
                      /\ ~last'.res.ok
                      /\ last'.op = "deploy_fails" /\ last'.args = <<<<>>>> =>
                             /\ last'.res.err = "UnavailableContractAddress"
                             /\ last'.res.at = a]_vars

\* a Deploy of class hash 1 has succeeded; a later Deploy that resolves to
\* the same address has been refused, its constructor having bound nothing,
\* and the address still reads class hash 1
C23_Witness ==
    /\ last.op = "deploy_fails" /\ last.res.err = "UnavailableContractAddress"
    /\ <<last.res.at, 1>> \in Deployed
    /\ last.child.class_hash_writes = EmptyMap
    /\ Len(frames) = 1
    /\ Len(frames[1].inner_calls) = 1
    /\ ReadClassHash(layers, Top, last.res.at) = 1

----------------------------------------------------------------------------
(* C24 *)

ReadingOps ==
    {"get_storage_at", "get_nonce_at", "get_class_hash_at", "get_contract_class",
     "increment_nonce", "set_class_hash_at"}

\* the outcomes on chain ls of the operation op of the top cache with the
\* arguments args, for a reader that answers (readerOk) or fails
OutcomesOf(ls, op, args, readerOk) ==
    CASE op = "get_storage_at" -> {get_storage_at(ls, Len(ls), args[1], args[2], readerOk)}
      [] op = "get_nonce_at" -> {get_nonce_at(ls, Len(ls), args[1], readerOk)}
      [] op = "get_class_hash_at" -> {get_class_hash_at(ls, Len(ls), args[1], readerOk)}
      [] op = "get_contract_class" -> {get_contract_class(ls, Len(ls), args[1], readerOk)}
      [] op = "increment_nonce" ->
             {increment_nonce(ls, Len(ls), args[1], readerOk, wraps) : wraps \in BOOLEAN}
      [] op = "set_class_hash_at" ->
             {set_class_hash_at(ls, Len(ls), args[1], args[2], readerOk)}

\* C24: an operation that asks the underlying reader is a get_storage_at,
\* get_nonce_at, get_class_hash_at, get_contract_class, increment_nonce or
\* set_class_hash_at; made on a reader that fails, it asks the same query,
\* returns the reader's error and changes no map of any cache of the chain;
\* an operation that has returned the reader's error had asked the reader
\* and has left the chain as it was, so that the same operation made again
\* asks the reader again.
C24_ReaderFailureLeavesCache ==
    [][/\ last'.q # {} =>
              /\ last'.op \in ReadingOps
              /\ \A r \in OutcomesOf(layers, last'.op, last'.args, FALSE) :
                     /\ ~r.res.ok /\ r.res.err = "StateReadError"
                     /\ r.q = last'.q
                     /\ r.layers = layers
       /\ ~last'.res.ok /\ last'.res.err = "StateReadError" =>
              /\ last'.q # {}
              /\ layers' = layers
              /\ \A r \in OutcomesOf(layers', last'.op, last'.args, TRUE) : r.q = last'.q
      ]_vars

\* an increment_nonce of a child cache, for an address no cache of the chain
\* holds a nonce of, has failed on the reader's error, and no cache has got
\* a nonce for the address
C24_Witness ==
    /\ last.op = "increment_nonce"
    /\ ~last.res.ok /\ last.res.err = "StateReadError"
    /\ Top = 2
    /\ \A i \in 1..Top : ~has_nonce_at(layers[i], last.args[1])

----------------------------------------------------------------------------
(* C25 *)

Reads == {"get_storage_at", "get_nonce_at", "get_class_hash_at", "get_contract_class"}

\* the top cache of chain ls holds a value for the key that a read op with
\* the arguments args names
HoldsKey(ls, op, args) ==
    CASE op = "get_storage_at" -> has_storage_at(ls[Len(ls)], args[1], args[2])
      [] op = "get_nonce_at" -> has_nonce_at(ls[Len(ls)], args[1])
      [] op = "get_class_hash_at" -> has_class_hash_at(ls[Len(ls)], args[1])
      [] op = "get_contract_class" -> args[1] \in DOMAIN ls[Len(ls)].class_hash_to_class

\* C25: no get_storage_at, get_nonce_at, get_class_hash_at or
\* get_contract_class made on a cache of the chain, for any key and whether
\* the underlying reader answers or fails, has taken its panic branch: a
\* read that has returned a value has left the key in the writes or the
\* initial values of the cache (in its classes, for get_contract_class),
\* where the lookup that follows the populate step finds it.
C25_ReadsNeverPanic ==
    last.op \in Reads =>
        /\ ~IsPanic(last.res)
        /\ last.res.ok => HoldsKey(layers, last.op, last.args)

\* a get_class_hash_at of a child cache has gone down to the underlying
\* reader: the parent and the child have each recorded the initial value
\* and found it in the lookup that follows
C25_Witness ==
    /\ last.op = "get_class_hash_at" /\ last.res.ok
    /\ last.q = {<<"class_hash", last.args[1]>>}
    /\ Top = 2
    /\ \A i \in 1..2 : last.args[1] \in DOMAIN layers[i].class_hash_initial_values

----------------------------------------------------------------------------
(* C26 *)

\* a child of the top cache of ls ended into it, by merge or by commit
Ended(mode, ls) ==
    IF mode = "merge"
    THEN [Front(ls) EXCEPT ![Len(ls) - 1] = merge(@, ls[Len(ls)])]
    ELSE commit(ls, CHOOSE o \in Orders(DOMAIN get_state_diff(ls[Len(ls)]).class_hash_writes) :
                        TRUE, TRUE).layers

\* the writes a second child makes: one storage write, one nonce increment
\* or one class-hash binding
ChildWrites ==
    [kind : {"storage"}, key : ContractStorageKey, value : StarkFelt]
        \cup [kind : {"nonce"}, key : ContractAddress, value : {0}]
        \cup [kind : {"class_hash"}, key : ContractAddress, value : ClassHash]
\* a new child opened over the top cache of ls, which makes the write w
WithChild(ls, w) ==
    LET opened == Append(ls, NewCachedState)
        i == Len(opened)
    IN  CASE w.kind = "storage" ->
                 set_storage_at(opened, i, w.key[1], w.key[2], w.value).layers
          [] w.kind = "nonce" -> increment_nonce(opened, i, w.key, TRUE, TRUE).layers
          [] w.kind = "class_hash" -> set_class_hash_at(opened, i, w.key, w.value, TRUE).layers

\* the map of cache c that holds the writes of the kind of w, and the one
\* that holds the initial values
WritesOf(c, w) ==
    CASE w.kind = "storage" -> c.storage_writes
      [] w.kind = "nonce" -> c.nonce_writes
      [] w.kind = "class_hash" -> c.class_hash_writes
InitialsOf(c, w) ==
    CASE w.kind = "storage" -> c.storage_initial_values
      [] w.kind = "nonce" -> c.nonce_initial_values
      [] w.kind = "class_hash" -> c.class_hash_initial_values
\* what the one-cache chain <<p>> reads at the key of w
ReadOf(p, w) ==
    CASE w.kind = "storage" -> ReadStorage(<<p>>, 1, w.key)
      [] w.kind = "nonce" -> ReadNonce(<<p>>, 1, w.key)
      [] w.kind = "class_hash" -> ReadClassHash(<<p>>, 1, w.key)

\* the state of a parent: its writes, and what it reads at every key
ParentState(p) ==
    [storage_writes |-> p.storage_writes,
     nonce_writes |-> p.nonce_writes,
     class_hash_writes |-> p.class_hash_writes,
     storage |-> [x \in ContractStorageKey |-> ReadStorage(<<p>>, 1, x)],
     nonce |-> [a \in ContractAddress |-> ReadNonce(<<p>>, 1, a)],
     class_hash |-> [a \in ContractAddress |-> ReadClassHash(<<p>>, 1, a)]]

\* with parent layers[1] and first child c1 = layers[2]: c1 ended and then a
\* second child that makes the write w; the second child first and then c1;
\* the second child as a child of c1, ended into c1, and then c1
FirstThenSecond(mode, w) == Ended(mode, WithChild(Ended(mode, layers), w))
SecondThenFirst(mode, w) ==
    Ended(mode, Append(Ended(mode, WithChild(<<layers[1]>>, w)), layers[2]))
SecondIntoFirst(mode, w) == Ended(mode, Ended(mode, WithChild(layers, w)))

\* the three ways give the same parent state when the second child writes a
\* key the first child holds nothing of
Associative(mode) ==
    \A w \in ChildWrites :
        w.key \notin DOMAIN WritesOf(layers[2], w) \cup DOMAIN InitialsOf(layers[2], w) =>
            /\ ParentState(FirstThenSecond(mode, w)[1]) = ParentState(SecondThenFirst(mode, w)[1])
            /\ ParentState(FirstThenSecond(mode, w)[1]) = ParentState(SecondIntoFirst(mode, w)[1])
\* when the second child writes a key the first child has written, the
\* parent ends with the value of the second child
LaterWins(mode) ==
    \A w \in ChildWrites :
        LET second == WithChild(Ended(mode, layers), w)[2]
        IN  w.key \in DOMAIN WritesOf(layers[2], w) /\ w.key \in DOMAIN WritesOf(second, w) =>
                ReadOf(FirstThenSecond(mode, w)[1], w) = WritesOf(second, w)[w.key]

\* C26: for a parent, a first child and every write of a second child,
\* whether the children are ended by merge or by commit: when the second
\* child writes a key the first holds nothing of, ending the first and then
\* the second, the second and then the first, and the second into the first
\* and then the first give the same parent state; and when the second child
\* writes a key the first has written, the parent ends with the value
\* written by the second, ended later.
C26_EndingAssociativeLaterWins ==
    Top = 2 /\ ~panicked =>
        \A mode \in {"merge", "commit"} : Associative(mode) /\ LaterWins(mode)

----------------------------------------------------------------------------
(* C27 *)

\* the value cache p shows for a key, given its writes w and initial values
\* n and the value below that its own reader gives: the write if any, else
\* the initial value, else the value of its reader
Visible(w, n, x, below) ==
    IF x \in DOMAIN w THEN w[x] ELSE IF x \in DOMAIN n THEN n[x] ELSE below
\* the chain with the caches below the top one emptied
AloneOnTop == [j \in 1..Top |-> IF j = Top THEN layers[Top] ELSE NewCachedState]

\* C27: in a child cache over a parent cache, a successful read of a storage
\* cell, nonce or class hash the child holds nothing of returns the value
\* the parent shows (its write if any, else its initial value, else the
\* value of its own reader), records it as the child's initial value and
\* changes no write; and a read of a key the child holds is answered from
\* the child's maps alone, whatever the caches below hold and without any
\* query of the reader, and changes no cache.
C27_LayeredReadThrough ==
    [][/\ Top >= 2 /\ last'.op = "get_storage_at" /\ last'.res.ok =>
              LET x == <<last'.args[1], last'.args[2]>>
                  c == layers[Top]
                  p == layers[Top - 1]
              IN  IF has_storage_at(c, x[1], x[2])
                  THEN layers' = layers /\ last'.q = {}
                  ELSE /\ last'.res.val =
                              Visible(p.storage_writes, p.storage_initial_values, x,
                                      ReadStorage(layers, Top - 2, x))
                       /\ layers'[Top] = set_storage_initial_value(c, x[1], x[2], last'.res.val)
       /\ Top >= 2 /\ last'.op = "get_nonce_at" /\ last'.res.ok =>
              LET a == last'.args[1]
                  c == layers[Top]
                  p == layers[Top - 1]
              IN  IF has_nonce_at(c, a)
                  THEN layers' = layers /\ last'.q = {}
                  ELSE /\ last'.res.val =
                              Visible(p.nonce_writes, p.nonce_initial_values, a,
                                      ReadNonce(layers, Top - 2, a))
                       /\ layers'[Top] = set_nonce_initial_value(c, a, last'.res.val)
       /\ Top >= 2 /\ last'.op = "get_class_hash_at" /\ last'.res.ok =>
              LET a == last'.args[1]
                  c == layers[Top]
                  p == layers[Top - 1]
              IN  IF has_class_hash_at(c, a)
                  THEN layers' = layers /\ last'.q = {}
                  ELSE /\ last'.res.val =
                              Visible(p.class_hash_writes, p.class_hash_initial_values, a,
                                      ReadClassHash(layers, Top - 2, a))
                       /\ layers'[Top] = set_class_hash_initial_value(c, a, last'.res.val)
       /\ Top >= 2 =>
              /\ \A x \in ContractStorageKey :
                     has_storage_at(layers[Top], x[1], x[2]) =>
                         LET r == get_storage_at(AloneOnTop, Top, x[1], x[2], FALSE)
                         IN  /\ r.res.ok /\ r.q = {} /\ r.layers = AloneOnTop
                             /\ r.res.val = ReadStorage(layers, Top, x)
              /\ \A a \in ContractAddress :
                     /\ has_nonce_at(layers[Top], a) =>
                            LET r == get_nonce_at(AloneOnTop, Top, a, FALSE)
                            IN  /\ r.res.ok /\ r.q = {} /\ r.layers = AloneOnTop
                                /\ r.res.val = ReadNonce(layers, Top, a)
                     /\ has_class_hash_at(layers[Top], a) =>
                            LET r == get_class_hash_at(AloneOnTop, Top, a, FALSE)
                            IN  /\ r.res.ok /\ r.q = {} /\ r.layers = AloneOnTop
                                /\ r.res.val = ReadClassHash(layers, Top, a)
      ]_vars

\* a child has read a cell its parent has written with a value other than
\* the reader's: the read has returned the parent's write without a query of
\* the reader and the child holds it as its initial value
C27_Witness ==
    /\ Top = 2
    /\ last.op = "get_storage_at" /\ last.res.ok /\ last.q = {}
    /\ LET x == <<last.args[1], last.args[2]>>
       IN  /\ x \in DOMAIN layers[1].storage_writes
           /\ layers[1].storage_writes[x] # reader.storage[x]
           /\ x \notin DOMAIN layers[2].storage_writes
           /\ x \in DOMAIN layers[2].storage_initial_values
           /\ layers[2].storage_initial_values[x] = layers[1].storage_writes[x]
           /\ last.res.val = layers[1].storage_writes[x]

----------------------------------------------------------------------------
(* C28 *)

\* the chain had the top cache been merged into its parent
Merged == [Front(layers) EXCEPT ![Top - 1] = merge(@, layers[Top])]

\* C28: after a commit of a child that returns Ok, its parent reads every
\* storage cell and every class hash as it would had the child been merged,
\* and holds the contract classes it would hold then (the classes it
\* returns without a query of its reader).
C28_CommitAgreesWithMerge ==
    [][last'.op = "commit" /\ last'.res.ok =>
           /\ \A x \in ContractStorageKey :
                  ReadStorage(layers', Top - 1, x) = ReadStorage(Merged, Top - 1, x)
           /\ \A a \in ContractAddress :
                  ReadClassHash(layers', Top - 1, a) = ReadClassHash(Merged, Top - 1, a)
           /\ layers'[Top - 1].class_hash_to_class = Merged[Top - 1].class_hash_to_class]_vars

----------------------------------------------------------------------------
(* C29 *)

\* C29: in every state with a child cache on top, every class-hash entry of
\* the child's state diff is at a nonzero address at which the parent reads
\* the zero class hash, and a commit of the child, in whatever order it
\* takes the entries and whether the underlying reader answers or fails,
\* returns Ok without a query of the reader and leaves every class-hash and
\* storage entry of the diff in the parent's writes; and every commit made
\* has returned Ok.
C29_CommitNeverFails ==
    /\ last.op = "commit" => last.res.ok
    /\ Top >= 2 /\ ~panicked =>
           LET state_diff == get_state_diff(layers[Top])
           IN  /\ \A a \in DOMAIN state_diff.class_hash_writes :
                      a # 0 /\ ReadClassHash(layers, Top - 1, a) = 0
               /\ \A order \in Orders(DOMAIN state_diff.class_hash_writes),
                     readerOk \in BOOLEAN :
                      LET r == commit(layers, order, readerOk)
                      IN  /\ r.res.ok
                          /\ r.q = {}
                          /\ Len(r.layers) = Top - 1
                          /\ Kept(state_diff.class_hash_writes, r.layers[Top - 1].class_hash_writes)
                          /\ Kept(state_diff.storage_writes, r.layers[Top - 1].storage_writes)

\* a child that had bound a class hash has been committed: the commit has
\* returned Ok and the parent holds the binding
C29_Witness ==
    /\ last.op = "commit" /\ last.res.ok
    /\ \E a \in DOMAIN last.child.class_hash_writes :
           /\ last.child.class_hash_writes[a] # 0
           /\ a \in DOMAIN layers[Top].class_hash_writes
           /\ layers[Top].class_hash_writes[a] = last.child.class_hash_writes[a]

----------------------------------------------------------------------------
(* C30 *)

\* the keys cache c has written, named as the queries of a reader are
WrittenKeys(c) ==
    ({"storage"} \X DOMAIN c.storage_writes)
        \cup ({"nonce"} \X DOMAIN c.nonce_writes)
        \cup ({"class_hash"} \X DOMAIN c.class_hash_writes)

\* the keys for which cache c holds the value its reader gave (class code
\* has one map for the values read and the values set)
ReadKeys(c) ==
    ({"storage"} \X DOMAIN c.storage_initial_values)
        \cup ({"nonce"} \X DOMAIN c.nonce_initial_values)
        \cup ({"class_hash"} \X DOMAIN c.class_hash_initial_values)
        \cup ({"contract_class"} \X DOMAIN c.class_hash_to_class)

\* C30: the cache over the underlying reader queries it for a key only while
\* it holds neither a write nor a read value for the key; a query that was
\* answered leaves the value in the cache, and the cache never loses a key
\* it holds, so that no key is queried again after an answered query or
\* after a write; and in every cache of the chain a key that is written and
\* has no initial value gets none.
C30_ReadsMemoized ==
    [][~panicked' =>
        /\ \A q \in last'.q :
               /\ q \notin WrittenKeys(layers[1]) \cup ReadKeys(layers[1])
               /\ \/ q \in ReadKeys(layers'[1])
                  \/ ~last'.res.ok /\ last'.res.err = "StateReadError"
        /\ \/ layers' = layers
           \/ /\ WrittenKeys(layers[1]) \subseteq WrittenKeys(layers'[1])
              /\ ReadKeys(layers[1]) \subseteq ReadKeys(layers'[1])
              /\ \A i \in 1..Len(layers) :
                     i <= Len(layers') =>
                         (ReadKeys(layers'[i]) \ ReadKeys(layers[i]))
                             \cap WrittenKeys(layers[i]) = {}
      ]_vars

\* a storage cell that was written and never read has been read from the
\* cache over the underlying reader: no query, the written value, and still
\* no initial value
C30_Witness ==
    /\ last.op = "get_storage_at" /\ Top = 1 /\ last.res.ok
    /\ last.q = {}
    /\ last.args \in DOMAIN layers[1].storage_writes
    /\ last.args \notin DOMAIN layers[1].storage_initial_values
    /\ last.res.val = layers[1].storage_writes[last.args]
    /\ reader.storage[last.args] # last.res.val

----------------------------------------------------------------------------
(* C31 *)

\* the library call that corresponds to a delegate call
LibraryOf(op) ==
    IF op = "delegate_call" THEN "library_call" ELSE "library_call_l1_handler"

\* the entry point that library call `op` of frame syscall_handler hands to
\* the orchestrator for class_hash
LibraryEntryPoint(op, syscall_handler, class_hash) ==
    IF op = "library_call" THEN library_call(syscall_handler, class_hash)
    ELSE library_call_l1_handler(syscall_handler, class_hash)

\* chain ls2 is chain ls with, at most, the class hash of address t added to
\* the initial values of its caches
OnlyReads(ls, ls2, t) ==
    /\ Len(ls2) = Len(ls)
    /\ \A j \in 1..Len(ls) :
           /\ [ls2[j] EXCEPT !.class_hash_initial_values = ls[j].class_hash_initial_values]
                  = ls[j]
           /\ Kept(ls[j].class_hash_initial_values, ls2[j].class_hash_initial_values)
           /\ DOMAIN ls2[j].class_hash_initial_values
                  \subseteq DOMAIN ls[j].class_hash_initial_values \cup {t}

\* C31: a DelegateCall (DelegateL1Handler) on target t that starts its
\* nested call does what a read of t's class hash h through the frame's
\* cache followed by LibraryCall(h) (LibraryCallL1Handler(h)) of the same
\* frame does: the read adds at most t's class hash to the initial values
\* of the caches, the entry point handed to the orchestrator is that of the
\* library call (class hash h, the frame's storage and caller addresses,
\* entry-point type External, L1Handler for the L1-handler calls), the
\* chain of caches is the one the library call produces and the nested
\* frame is the one it starts; the calling frames are left as they are; a
\* DelegateCall that starts no nested call has failed on the read of t's
\* class hash, with the reader's error, and has changed no cache and no
\* frame.
C31_DelegateIsLibraryCall ==
    [][last'.op \in Delegates /\ nops' # nops =>
          LET t == last'.args[1]
              read == get_class_hash_at(layers, Top, t, TRUE)
              h == read.res.val
              entry_point == LibraryEntryPoint(LibraryOf(last'.op), frames[Cur], h)
              lib == execute_inner_call(read.layers, entry_point, TRUE)
          IN  IF last'.res.ok
              THEN /\ read.res.ok /\ h = ReadClassHash(layers, Top, t)
                   /\ OnlyReads(layers, read.layers, t)
                   /\ last'.q = read.q
                   /\ entry_point.class_hash = Some(h)
                   /\ entry_point.entry_point_type =
                          IF last'.op = "delegate_call" THEN "External" ELSE "L1Handler"
                   /\ entry_point.storage_address = frames[Cur].storage_address
                   /\ entry_point.caller_address = frames[Cur].caller_address
                   /\ lib.res.ok /\ lib.q = {}
                   /\ layers' = lib.layers
                   /\ Len(frames') = Cur + 1
                   /\ SubSeq(frames', 1, Cur) = frames
                   /\ [frames'[Cur + 1] EXCEPT !.via = LibraryOf(last'.op)]
                          = NewSyscallHintProcessor(entry_point, LibraryOf(last'.op))
              ELSE /\ last'.res.err = "StateReadError"
                   /\ last'.q = {<<"class_hash", t>>}
                   /\ ~has_class_hash_at(layers[Top], t)
                   /\ frames' = frames
                   /\ layers' = layers
      ]_vars

\* contract 1, called by account 0, has made a DelegateL1Handler on its own
\* address: the class hash was read from the underlying reader and recorded,
\* and the nested frame is the one LibraryCallL1Handler on that class hash
\* starts
C31_Witness ==
    /\ last.op = "delegate_l1_handler" /\ last.res.ok
    /\ last.args = <<1>>
    /\ last.q = {<<"class_hash", 1>>}
    /\ Len(frames) = 2 /\ Top = 2
    /\ 1 \in DOMAIN layers[1].class_hash_initial_values
    /\ reader.class_hash[1] # 0
    /\ frames[2].call = library_call_l1_handler(frames[1], reader.class_hash[1])
    /\ frames[2].call.entry_point_type = "L1Handler"

====
